---- MODULE Spec2Model ----
(***************************************************************************)
(* feedToHtml: the incremental monthly-archive pipeline of                 *)
(* FeedToHtml.convert, with the services it calls (MonthlyGroupingService, *)
(* HtmlParserService, TemplateEngine, FileWriter).                         *)
(*                                                                         *)
(* Text is modelled as a sequence of tokens.  A template is a sequence of  *)
(* template tokens (strings such as "{{ITEMS}}" or "<main>"); a page is a  *)
(* sequence of page tokens (records).  The regular expressions of the      *)
(* source become scans over these sequences.  An entry link is a sequence  *)
(* of characters, so that writing a link into href="..." and reading it    *)
(* back with href=["']([^"']+)["'] are two different operations.           *)
(***************************************************************************)
EXTENDS Integers, Sequences, FiniteSets, TLC

(* ------------------------------ bounds -------------------------------- *)
MaxRuns == 2
MaxFeedLen == 2
MaxFaults == 2
MaxCalls == 2

(* ------------------------------ generic ------------------------------- *)
Range(s) == {s[i] : i \in DOMAIN s}

RECURSIVE Flat(_)
Flat(ss) == IF ss = <<>> THEN <<>> ELSE Head(ss) \o Flat(Tail(ss))


(* ------------------------------ dates, keys --------------------------- *)
NullDate == [y |-> 0, m |-> 0, t |-> 0]
Date(y, m, t) == [y |-> y, m |-> m, t |-> t]
getTime(d) == d.y * 1200 + d.m * 100 + d.t

NoKey == <<0, 0>>
AllKeys == {<<2024, 11>>, <<2024, 12>>, <<2025, 1>>}

getYearMonthKey(date) == <<date.y, date.m>>

\* a.localeCompare(b) < 0 on zero-padded "YYYY-MM" strings
KeyLess(a, b) == a[1] < b[1] \/ (a[1] = b[1] /\ a[2] < b[2])

\* `${year}-${month padded to two digits}`, as pieces of text
KeyText(k) == <<ToString(k[1]), "-">> \o (IF k[2] < 10 THEN <<"0">> ELSE <<>>) \o <<ToString(k[2])>>

(* ------------------------------ entries ------------------------------- *)
\* An RSSItem.  Texts (title, link, author, a category) are sequences of
\* characters; rev stands for the description; an item of the feeds has neither
\* author nor categories.
Entry(title, link, pubDate, rev) ==
    [title |-> title, link |-> link, pubDate |-> pubDate, rev |-> rev,
     author |-> <<>>, categories |-> <<>>]

La == <<"a">>
Lb == <<"b">>
Lc == <<"c">>
Ld == <<"d">>
Lu == <<"u">>
Lq == <<"q", "'", "x">>

eA  == Entry(<<"A">>, La, Date(2024, 12, 1), 0)
eB  == Entry(<<"B">>, Lb, Date(2024, 12, 2), 0)
eQ  == Entry(<<"Q">>, Lq, Date(2024, 12, 2), 0)
eA2 == Entry(<<"A">>, La, Date(2024, 12, 3), 1)
eAm == Entry(<<"A">>, La, Date(2025, 1, 1), 0)
eC  == Entry(<<"C">>, Lc, Date(2025, 1, 2), 0)
eD  == Entry(<<"D">>, Ld, Date(2024, 11, 1), 0)
eU  == Entry(<<"U">>, Lu, NullDate, 0)

Entries == {eA, eB, eQ, eA2, eAm, eC, eD, eU}

RECURSIVE SeqsNoRep(_, _)
SeqsNoRep(S, n) ==
    IF n = 0 THEN {<<>>}
    ELSE LET shorter == SeqsNoRep(S, n - 1)
             fresh   == {p \in shorter \X S : \A i \in DOMAIN p[1] : p[1][i] # p[2]}
         IN  shorter \cup {Append(p[1], p[2]) : p \in fresh}

Feeds == {f \in SeqsNoRep(Entries, MaxFeedLen) : f # <<>>}

(* --------------------------- MonthlyGroupingService ------------------- *)
hasPubDate(item) == item.pubDate # NullDate

\* an insertion that puts an item before the items of its own time
RECURSIVE InsertDesc_BeforeEqual(_, _)
InsertDesc_BeforeEqual(sorted, item) ==
    IF sorted = <<>> THEN <<item>>
    ELSE IF getTime(Head(sorted).pubDate) > getTime(item.pubDate)
         THEN <<Head(sorted)>> \o InsertDesc_BeforeEqual(Tail(sorted), item)
         ELSE <<item>> \o sorted

\* Array.prototype.sort((a, b) => b.pubDate.getTime() - a.pubDate.getTime()): stable
RECURSIVE InsertDesc(_, _)
InsertDesc(sorted, item) ==
    IF sorted = <<>> THEN <<item>>
    ELSE IF getTime(Head(sorted).pubDate) >= getTime(item.pubDate)
         THEN <<Head(sorted)>> \o InsertDesc(Tail(sorted), item)
         ELSE <<item>> \o sorted

RECURSIVE SortDesc(_)
SortDesc(items) ==
    IF items = <<>> THEN <<>>
    ELSE InsertDesc(SortDesc(SubSeq(items, 1, Len(items) - 1)), items[Len(items)])

\* keys of a set, newest month first
RECURSIVE KeysDesc(_)
KeysDesc(S) ==
    IF S = {} THEN <<>>
    ELSE LET top == CHOOSE k \in S : \A j \in S : j = k \/ KeyLess(j, k)
         IN  <<top>> \o KeysDesc(S \ {top})

RECURSIVE KeysAsc(_)
KeysAsc(S) ==
    IF S = {} THEN <<>>
    ELSE LET low == CHOOSE k \in S : \A j \in S : j = k \/ KeyLess(k, j)
         IN  <<low>> \o KeysAsc(S \ {low})

\* a grouping that files an item without pubDate under the newest month
groupItemsByMonth_KeepUndated(items) ==
    LET keyOf(it) == IF hasPubDate(it) THEN getYearMonthKey(it.pubDate) ELSE <<2025, 1>>
        keys   == {keyOf(items[i]) : i \in DOMAIN items}
        ofKey(k) == SelectSeq(items, LAMBDA it : keyOf(it) = k)
        order  == KeysDesc(keys)
    IN  [i \in DOMAIN order |-> [key |-> order[i], items |-> SortDesc(ofKey(order[i]))]]

groupItemsByMonth(items) ==
    LET dated  == SelectSeq(items, hasPubDate)
        keys   == {getYearMonthKey(dated[i].pubDate) : i \in DOMAIN dated}
        ofKey(k) == SelectSeq(dated, LAMBDA it : getYearMonthKey(it.pubDate) = k)
        order  == KeysDesc(keys)
    IN  [i \in DOMAIN order |-> [key |-> order[i], items |-> SortDesc(ofKey(order[i]))]]

countProcessableItems(items) == Len(SelectSeq(items, hasPubDate))

countSkippedItems(items) == Len(SelectSeq(items, LAMBDA it : it.pubDate = NullDate))

\* a filter that forgets the link check
filterNewItems_NoLinkCheck(newItems, lastDate, existingLinks) ==
    SelectSeq(newItems, hasPubDate)

\* a filter that adds nothing to a page on which it finds no link
filterNewItems_NoneWithoutLinks(newItems, lastDate, existingLinks) ==
    IF existingLinks = {} THEN <<>>
    ELSE SelectSeq(newItems, LAMBDA it : hasPubDate(it) /\ it.link \notin existingLinks)

\* a filter that also asks for an entry later than the page's publish-time
\* marker; the marker is the time of an earlier run, later than every entry
filterNewItems_AfterLastDate(newItems, lastDate, existingLinks) ==
    SelectSeq(newItems, LAMBDA it : /\ hasPubDate(it)
                                     /\ it.link \notin existingLinks
                                     /\ lastDate = 0)

filterNewItems(newItems, lastDate, existingLinks) ==
    SelectSeq(newItems, LAMBDA it : hasPubDate(it) /\ it.link \notin existingLinks)

\* a search for the neighbours in the list as it is given, without the sort
findAdjacentMonths_Unsorted(currentYearMonth, availableMonths) ==
    LET idx == IF \E i \in DOMAIN availableMonths : availableMonths[i] = currentYearMonth
               THEN CHOOSE i \in DOMAIN availableMonths : availableMonths[i] = currentYearMonth
               ELSE 0
    IN  IF idx = 0 THEN [prev |-> NoKey, next |-> NoKey]
        ELSE [prev |-> IF idx > 1 THEN availableMonths[idx - 1] ELSE NoKey,
              next |-> IF idx < Len(availableMonths) THEN availableMonths[idx + 1] ELSE NoKey]

findAdjacentMonths(currentYearMonth, availableMonths) ==
    LET sorted == KeysAsc(Range(availableMonths))
        idx    == IF \E i \in DOMAIN sorted : sorted[i] = currentYearMonth
                  THEN CHOOSE i \in DOMAIN sorted : sorted[i] = currentYearMonth
                  ELSE 0
    IN  IF idx = 0 THEN [prev |-> NoKey, next |-> NoKey]
        ELSE [prev |-> IF idx > 1 THEN sorted[idx - 1] ELSE NoKey,
              next |-> IF idx < Len(sorted) THEN sorted[idx + 1] ELSE NoKey]

\* a relative path that always goes up to the year directories
generateRelativePath_AlwaysUp(fromYearMonth, toYearMonth) ==
    <<"../", ToString(toYearMonth[1]), "/">> \o KeyText(toYearMonth) \o <<".html">>

\* a relative path that never leaves the directory of the page
generateRelativePath_SameDirectory(fromYearMonth, toYearMonth) ==
    KeyText(toYearMonth) \o <<".html">>

generateRelativePath(fromYearMonth, toYearMonth) ==
    IF fromYearMonth[1] = toYearMonth[1]
    THEN KeyText(toYearMonth) \o <<".html">>
    ELSE <<"../", ToString(toYearMonth[1]), "/">> \o KeyText(toYearMonth) \o <<".html">>

\* yearMonth.split('-')[0]
yearOf(yearMonth) == ToString(yearMonth[1])

\* generateFilePath(yearMonth, outputDir): the path below outputDir
generateFilePath(yearMonth) ==
    <<yearOf(yearMonth), "/">> \o KeyText(yearMonth) \o <<".html">>

(* ------------------------------ page tokens --------------------------- *)
\* One token of rendered HTML.  t is the kind of the token:
\*   "head"  <head>                     "meta"  <meta name="date" content=n>
\*   "title" / "author" / "categories"  substituted text of an entry
\*   "text"  substituted feed text      "gen"   generation date n
\*   "literal"  a template token left verbatim (title holds it)
\*   "main_open" / "main_close"         <main> / </main>
\*   "item"  one rendered entry: art = wrapped in <article>, h2 = its link is
\*           written as <h2><a href="href">, title, rev = description revision
\*   "next_link" / "prev_link"  active navigation link to month key at href
\*   "next_disabled" / "prev_disabled"  <span class="... disabled"></span>
\*   "current"  <span class="current-month">key</span>
PT(t, title, href, n, key, art, h2) ==
    [t |-> t, title |-> title, href |-> href, n |-> n, key |-> key, art |-> art, h2 |-> h2]

Plain(t) == PT(t, <<>>, <<>>, 0, NoKey, FALSE, FALSE)
\* a substitution that strips a token it does not know
Literal_Stripped(tok) == PT("literal", <<>>, <<>>, 0, NoKey, FALSE, FALSE)

\* a template token that no substitution matches stays as it is
Literal(tok) == PT("literal", <<tok>>, <<>>, 0, NoKey, FALSE, FALSE)
NavTok(t, key, href) == PT(t, <<>>, href, 0, key, FALSE, FALSE)

NoPage == <<>>

\* first index >= from of a token of kind t, 0 when there is none
FirstAt(page, t, from) ==
    IF \E i \in from..Len(page) : page[i].t = t
    THEN CHOOSE i \in from..Len(page) : page[i].t = t /\ \A j \in from..(i - 1) : page[j].t # t
    ELSE 0

(* ------------------------------ templates ----------------------------- *)
\* first index >= from of the template token tok, 0 when there is none
TFirst(content, tok, from) ==
    IF \E i \in from..Len(content) : content[i] = tok
    THEN CHOOSE i \in from..Len(content) : content[i] = tok /\ \A j \in from..(i - 1) : content[j] # tok
    ELSE 0

TCount(content, tok) == Cardinality({i \in DOMAIN content : content[i] = tok})

\* HTMLTemplate.getDefaultTemplate
DefaultTemplate ==
    <<"<head>", "<meta-date>", "{{FEED_TITLE}}", "{{MONTHLY_NAV}}",
      "<main>", "{{ITEMS}}", "</main>", "{{GENERATION_DATE}}">>

\* the template example of the README: block form, no <main>, no date meta tag
ReadmeTemplate ==
    <<"<head>", "{{FEED_TITLE}}", "{{#ITEMS}}", "<article-h2-link>", "{{/ITEMS}}",
      "{{GENERATION_DATE}}">>

\* the custom template of the integration tests: <article>{{ITEM_TITLE}}</article>
TestTemplate ==
    <<"<head>", "{{FEED_TITLE}}", "{{UNKNOWN_PLACEHOLDER}}", "{{MONTHLY_NAV}}",
      "<main>", "{{#ITEMS}}", "<article-title>", "{{/ITEMS}}", "</main>">>

\* the default layout without the main-title marker
NoTitleTemplate ==
    <<"<head>", "<meta-date>", "{{MONTHLY_NAV}}", "<main>", "{{ITEMS}}", "</main>">>

NoItemsTemplate == <<"<head>", "{{FEED_TITLE}}", "<main>", "</main>">>
TwoBareTemplate == <<"{{FEED_TITLE}}", "<main>", "{{ITEMS}}", "{{ITEMS}}", "</main>">>
BareAndBlockTemplate ==
    <<"{{FEED_TITLE}}", "<main>", "{{ITEMS}}", "{{#ITEMS}}", "<article-title>", "{{/ITEMS}}", "</main>">>
NoTitleNoItemsTemplate == <<"<head>", "<main>", "</main>">>

Templates ==
    {DefaultTemplate, ReadmeTemplate, TestTemplate, NoTitleTemplate,
     NoItemsTemplate, TwoBareTemplate, BareAndBlockTemplate, NoTitleNoItemsTemplate}

\* TemplateEngine constructor: the built-in entry template
BuiltinItemTemplate ==
    <<"<article-h2-link>",
      "{{#ITEM_AUTHOR}}", "by", "{{ITEM_AUTHOR}}", "{{/ITEM_AUTHOR}}",
      "{{#ITEM_CATEGORIES}}", "Tags:", "{{ITEM_CATEGORIES}}", "{{/ITEM_CATEGORIES}}">>

hasPlaceholder(content, placeholder) == TCount(content, placeholder) > 0

\* the counts both validators take with /\{\{ITEMS\}\}/g and /\{\{#ITEMS\}\}/g
totalItemsCount(content) == TCount(content, "{{ITEMS}}") + TCount(content, "{{#ITEMS}}")

\* a validation for which a missing {{FEED_TITLE}} is an error
HTMLTemplate_validate_throws_TitleRequired(content) ==
    \/ content = <<>>
    \/ totalItemsCount(content) > 1
    \/ ~hasPlaceholder(content, "{{FEED_TITLE}}")

\* HTMLTemplate.validate (run by the constructor when a template is loaded):
\* TRUE when it throws
HTMLTemplate_validate_throws(content) == content = <<>> \/ totalItemsCount(content) > 1

\* HTMLTemplate.validate / TemplateEngine.validateTemplate: TRUE when it warns
validate_warns(content) ==
    LET hasItemsPlaceholder == hasPlaceholder(content, "{{ITEMS}}")
        open         == TFirst(content, "{{#ITEMS}}", 1)
        hasItemsBlock == open # 0 /\ TFirst(content, "{{/ITEMS}}", open + 1) # 0
    IN  ~hasPlaceholder(content, "{{FEED_TITLE}}") \/ ~(hasItemsPlaceholder \/ hasItemsBlock)

\* a validation that lets a template without entries region through
validateTemplate_throws_OnlyDuplicates(content) == totalItemsCount(content) > 1

\* TemplateEngine.validateTemplate: TRUE when it throws
validateTemplate_throws(content) == totalItemsCount(content) # 1

(* ------------------------------ TemplateEngine ------------------------ *)
\* extractItemTemplate: the first {{#ITEMS}}...{{/ITEMS}} region, non-greedy
extractItemTemplate(content) ==
    LET open  == TFirst(content, "{{#ITEMS}}", 1)
        close == IF open = 0 THEN 0 ELSE TFirst(content, "{{/ITEMS}}", open + 1)
    IN  IF close # 0
        THEN [itemTemplate |-> SubSeq(content, open + 1, close - 1),
              processedContent |-> SubSeq(content, 1, open - 1) \o <<"{{ITEMS}}">>
                                   \o SubSeq(content, close + 1, Len(content))]
        ELSE [itemTemplate |-> <<>>, processedContent |-> content]

\* text.replace(/from/g, to)
ReplaceAll(text, from, to) ==
    [i \in DOMAIN text |-> IF text[i] = from THEN to ELSE text[i]]

\* an escaping that forgets the ampersand
escapeHTML_NoAmpersand(text) ==
    ReplaceAll(ReplaceAll(ReplaceAll(ReplaceAll(text,
        "<", "&lt;"), ">", "&gt;"), "\"", "&quot;"), "'", "&#39;")

\* escapeHTML: the five replacements in the order of the code
escapeHTML(text) ==
    ReplaceAll(ReplaceAll(ReplaceAll(ReplaceAll(ReplaceAll(text,
        "&", "&amp;"), "<", "&lt;"), ">", "&gt;"), "\"", "&quot;"), "'", "&#39;")

\* text.trim()
RECURSIVE trimStart(_)
trimStart(text) ==
    IF text # <<>> /\ Head(text) = " " THEN trimStart(Tail(text)) ELSE text

RECURSIVE trimEnd(_)
trimEnd(text) ==
    IF text # <<>> /\ text[Len(text)] = " "
    THEN trimEnd(SubSeq(text, 1, Len(text) - 1))
    ELSE text

trim(text) == trimEnd(trimStart(text))

\* RSSItem.hasAuthor, hasCategories, getCategoriesString
hasAuthor(item) == item.author # <<>> /\ trim(item.author) # <<>>
hasCategories(item) == Len(item.categories) > 0

RECURSIVE join(_, _)
join(texts, separator) ==
    IF texts = <<>> THEN <<>>
    ELSE IF Len(texts) = 1 THEN texts[1]
    ELSE texts[1] \o <<separator>> \o join(Tail(texts), separator)

getCategoriesString(item) == join(item.categories, ", ")

\* html.replace(/open/g, '').replace(/close/g, '')
removeDelimiters(html, open, close) ==
    SelectSeq(html, LAMBDA tok : tok # open /\ tok # close)

\* a removal that takes the delimiters of an empty field and leaves the body
removeSections_KeepBody(html, open, close) ==
    SelectSeq(html, LAMBDA tok : tok # open /\ tok # close)

\* html.replace(/open.*?close/gs, ''): every span from an opener to the next closer
RECURSIVE removeSections(_, _, _)
removeSections(html, open, close) ==
    LET i == TFirst(html, open, 1)
        j == IF i = 0 THEN 0 ELSE TFirst(html, close, i + 1)
    IN  IF j = 0 THEN html
        ELSE SubSeq(html, 1, i - 1)
             \o removeSections(SubSeq(html, j + 1, Len(html)), open, close)

\* generateItemHTML: one entry rendered with the entry template; the pieces
\* <article-h2-link>, <article-title> and <div-title> stand for the markup
\* around {{ITEM_LINK}} and {{ITEM_TITLE}}
generateItemHTML(itemTemplate, item) ==
    LET authorDone ==
          IF hasAuthor(item)
          THEN removeDelimiters(itemTemplate, "{{#ITEM_AUTHOR}}", "{{/ITEM_AUTHOR}}")
          ELSE removeSections(itemTemplate, "{{#ITEM_AUTHOR}}", "{{/ITEM_AUTHOR}}")
        html ==
          IF hasCategories(item)
          THEN removeDelimiters(authorDone, "{{#ITEM_CATEGORIES}}", "{{/ITEM_CATEGORIES}}")
          ELSE removeSections(authorDone, "{{#ITEM_CATEGORIES}}", "{{/ITEM_CATEGORIES}}")
        ITEM_TITLE == escapeHTML(IF item.title = <<>> THEN <<"Untitled">> ELSE item.title)
        ITEM_AUTHOR == IF hasAuthor(item) THEN escapeHTML(item.author) ELSE <<>>
        ITEM_CATEGORIES ==
          IF hasCategories(item) THEN escapeHTML(getCategoriesString(item)) ELSE <<>>
        piece(tok) ==
          IF tok = "<article-h2-link>"
          THEN PT("item", ITEM_TITLE, item.link, item.rev, NoKey, TRUE, TRUE)
          ELSE IF tok = "<article-title>"
          THEN PT("item", ITEM_TITLE, <<>>, 0, NoKey, TRUE, FALSE)
          ELSE IF tok = "<div-title>"
          THEN PT("item", ITEM_TITLE, <<>>, 0, NoKey, FALSE, FALSE)
          ELSE IF tok = "{{ITEM_TITLE}}"
          THEN PT("title", ITEM_TITLE, <<>>, 0, NoKey, FALSE, FALSE)
          ELSE IF tok = "{{ITEM_AUTHOR}}"
          THEN PT("author", ITEM_AUTHOR, <<>>, 0, NoKey, FALSE, FALSE)
          ELSE IF tok = "{{ITEM_CATEGORIES}}"
          THEN PT("categories", ITEM_CATEGORIES, <<>>, 0, NoKey, FALSE, FALSE)
          ELSE Literal(tok)
    IN  [i \in DOMAIN html |-> piece(html[i])]

generateItemsHTML(itemTemplate, items) ==
    IF items = <<>> THEN <<Literal("<p>No items available.</p>")>>
    ELSE Flat([i \in DOMAIN items |-> generateItemHTML(itemTemplate, items[i])])

createMonthlyNavigation(currentYearMonth, adjacentMonths) ==
    LET prev == adjacentMonths.prev
        next == adjacentMonths.next
    IN  IF prev = NoKey /\ next = NoKey THEN <<>>
        ELSE <<IF next # NoKey
               THEN NavTok("next_link", next, generateRelativePath(currentYearMonth, next))
               ELSE Plain("next_disabled"),
               NavTok("current", currentYearMonth, <<>>),
               IF prev # NoKey
               THEN NavTok("prev_link", prev, generateRelativePath(currentYearMonth, prev))
               ELSE Plain("prev_disabled")>>

\* generateHTML: the values substituted for the tokens of the processed template;
\* a token that is no recognized placeholder stays as it is
generateHTML(itemTemplate, content, yearMonth, pageItems, adjacentMonths, time) ==
    LET processedContent == extractItemTemplate(content).processedContent
        value(tok) ==
          IF tok = "{{FEED_TITLE}}" THEN <<PT("text", <<"Feed">>, <<>>, 0, NoKey, FALSE, FALSE)>>
          ELSE IF tok = "<meta-date>" THEN <<PT("meta", <<>>, <<>>, time, NoKey, FALSE, FALSE)>>
          ELSE IF tok = "{{MONTHLY_NAV}}" THEN createMonthlyNavigation(yearMonth, adjacentMonths)
          ELSE IF tok = "{{ITEMS}}" THEN generateItemsHTML(itemTemplate, pageItems)
          ELSE IF tok = "{{GENERATION_DATE}}" THEN <<PT("gen", <<>>, <<>>, time, NoKey, FALSE, FALSE)>>
          ELSE IF tok = "<head>" THEN <<Plain("head")>>
          ELSE IF tok = "<main>" THEN <<Plain("main_open")>>
          ELSE IF tok = "</main>" THEN <<Plain("main_close")>>
          ELSE <<Literal(tok)>>
    IN  Flat([i \in DOMAIN processedContent |-> value(processedContent[i])])

\* the entry template generateHTML leaves in the engine
itemTemplateAfter(itemTemplate, content) ==
    IF extractItemTemplate(content).itemTemplate # <<>>
    THEN extractItemTemplate(content).itemTemplate
    ELSE itemTemplate

\* a patch that puts its link at the end of a page without placeholder
updateNextLink_AppendsLink(html, nextYearMonth, currentYearMonth) ==
    LET hasNextLink == FirstAt(html, "next_link", 1) # 0
        disabled    == FirstAt(html, "next_disabled", 1)
        nextLink    == NavTok("next_link", nextYearMonth,
                              generateRelativePath(currentYearMonth, nextYearMonth))
    IN  IF hasNextLink THEN html
        ELSE IF disabled # 0 THEN [html EXCEPT ![disabled] = nextLink]
        ELSE Append(html, nextLink)

\* a patch that does not look for a forward link before it fills a placeholder
updateNextLink_NoLinkCheck(html, nextYearMonth, currentYearMonth) ==
    LET disabled == FirstAt(html, "next_disabled", 1)
    IN  IF disabled # 0
        THEN [html EXCEPT ![disabled] =
                 NavTok("next_link", nextYearMonth,
                        generateRelativePath(currentYearMonth, nextYearMonth))]
        ELSE html

updateNextLink(html, nextYearMonth, currentYearMonth) ==
    LET hasNextLink == FirstAt(html, "next_link", 1) # 0
        disabled    == FirstAt(html, "next_disabled", 1)
    IN  IF hasNextLink THEN html
        ELSE IF disabled # 0
        THEN [html EXCEPT ![disabled] =
                 NavTok("next_link", nextYearMonth,
                        generateRelativePath(currentYearMonth, nextYearMonth))]
        ELSE html

(* ------------------------------ HtmlParserService --------------------- *)
IsQuote(c) == c = "'" \/ c = "\""

\* what href=["']([^"']+)["'] captures of a link written between double quotes
RECURSIVE ReadHref(_)
ReadHref(link) ==
    IF link = <<>> \/ IsQuote(Head(link)) THEN <<>>
    ELSE <<Head(link)>> \o ReadHref(Tail(link))

extractMetaDate(htmlContent) ==
    LET i == FirstAt(htmlContent, "meta", 1)
    IN  IF i = 0 THEN 0 ELSE htmlContent[i].n

extractExistingLinks(htmlContent) ==
    {ReadHref(htmlContent[i].href) :
        i \in {j \in DOMAIN htmlContent :
                  /\ htmlContent[j].t = "item"
                  /\ htmlContent[j].art
                  /\ htmlContent[j].h2
                  /\ ReadHref(htmlContent[j].href) # <<>>}}

updateMetaDate(htmlContent, newDate) ==
    LET meta == FirstAt(htmlContent, "meta", 1)
        head == FirstAt(htmlContent, "head", 1)
    IN  IF meta # 0 THEN [htmlContent EXCEPT ![meta].n = newDate]
        ELSE IF head # 0
        THEN SubSeq(htmlContent, 1, head)
             \o <<PT("meta", <<>>, <<>>, newDate, NoKey, FALSE, FALSE)>>
             \o SubSeq(htmlContent, head + 1, Len(htmlContent))
        ELSE htmlContent

(* ------------------------------ FeedToHtml ---------------------------- *)
\* the capture of /<main[^>]*>([\s\S]*?)<\/main>/i
mainContent(html) ==
    LET open  == FirstAt(html, "main_open", 1)
        close == IF open = 0 THEN 0 ELSE FirstAt(html, "main_close", open + 1)
    IN  IF close = 0 THEN <<>> ELSE SubSeq(html, open + 1, close - 1)

mergeHtmlContent(existingHtml, newHtml, time) ==
    LET newItemsHtml      == mainContent(newHtml)
        existingItemsHtml == mainContent(existingHtml)
        open   == FirstAt(existingHtml, "main_open", 1)
        close  == IF open = 0 THEN 0 ELSE FirstAt(existingHtml, "main_close", open + 1)
        mergedHtml ==
          IF close = 0 THEN existingHtml
          ELSE SubSeq(existingHtml, 1, open) \o newItemsHtml \o existingItemsHtml
               \o SubSeq(existingHtml, close, Len(existingHtml))
    IN  updateMetaDate(mergedHtml, time)

\* an error message is its leading word followed by the rest of its text
categorizeError(message) ==
    IF message = <<>> THEN "unknown"
    ELSE IF Head(message) = "NETWORK" THEN "network"
    ELSE IF Head(message) = "PARSE" THEN "parse"
    ELSE IF Head(message) = "FILESYSTEM" THEN "filesystem"
    ELSE IF Head(message) = "CONFIG" THEN "config"
    ELSE "unknown"

\* an output file named without its year directory
createMonthly_NoYearDirectory(yearMonth, content, itemCount) ==
    [filename |-> KeyText(yearMonth) \o <<".html">>,
     content |-> content, itemCount |-> itemCount, key |-> yearMonth]

\* OutputFile.createMonthly; yearMonth is kept beside the fields of the
\* OutputFile for the bookkeeping of the month's outcome
createMonthly(yearMonth, content, itemCount) ==
    [filename |-> <<yearOf(yearMonth), "/">> \o KeyText(yearMonth) \o <<".html">>,
     content |-> content, itemCount |-> itemCount, key |-> yearMonth]

\* the paths below outputDir that a run reads or writes
Paths ==
    {generateFilePath(k) : k \in AllKeys}
        \cup {createMonthly(k, <<>>, 0).filename : k \in AllKeys}

(* ------------------------------ state --------------------------------- *)
VARIABLES
    disk,               \* path below outputDir -> page on disk, or NoPage
    mergedConfig,       \* templatePath of the configuration, template of the command line options
    itemTemplate,       \* TemplateEngine.itemTemplate
    pc,                 \* where convert is: idle, load, validate, group, bucket, write, cleanup, patch, done
    runs,               \* completed runs
    feed,               \* feed.items of the current run
    groups,             \* monthlyGroups, newest month first
    cur,                \* index into groups / outputFiles / writtenPaths / newlyCreatedPages
    outputFiles,        \* the OutputFiles to write
    newlyCreatedPages,  \* [yearMonth, prevMonth]
    writtenPaths,       \* paths written by writeFiles so far
    totalNewItems,
    updatedFiles,
    error,              \* message of the error thrown, <<>> while there is none
    warned,             \* console.warn about missing placeholders
    skipped,            \* countSkippedItems(feed.items)
    faults,             \* input/output failures injected so far
    outcome,            \* history: month key -> "CREATE", "UPDATE", "NO_CHANGE" or "-"
    wcount,             \* history: month key -> writes of its page by writeFiles in this run
    pcount,             \* history: month key -> writes of its page by the navigation patch in this run
    unlinked,           \* history: paths cleanupFiles deleted in this run
    unlinkFailed,       \* history: paths whose deletion by cleanupFiles failed in this run
    readFailed,         \* history: reading an existing page failed in this run
    faulted,            \* history: a failure was injected in this run
    disk0,              \* history: disk when the run started
    prevFeed,           \* history: feed of the previous run
    prevClean           \* history: the previous run succeeded with no failure injected

vars == <<disk, mergedConfig, itemTemplate, pc, runs, feed, groups, cur, outputFiles,
          newlyCreatedPages, writtenPaths, totalNewItems, updatedFiles, error, warned,
          skipped, faults, outcome, wcount, pcount, unlinked, unlinkFailed, readFailed,
          faulted, disk0, prevFeed, prevClean>>

\* no template file is named
NoPath == <<"(none)">>

\* the configurations of a run: a template file named by templatePath in the
\* configuration file, by --template on the command line, or by neither; a
\* template file is written as its content
Configs ==
    {[templatePath |-> p, template |-> NoPath] :
        p \in (Templates \ {DefaultTemplate}) \cup {NoPath}}
    \cup {[templatePath |-> NoPath, template |-> ReadmeTemplate]}

\* loadTemplate(mergedConfig.templatePath): content of the template of the run
template ==
    IF mergedConfig.templatePath = NoPath THEN DefaultTemplate
    ELSE mergedConfig.templatePath

\* new Date() of the current run
time == runs + 1

\* an existsSync that finds nothing
exists_Never(filePath) == FALSE

exists(filePath) == disk[filePath] # NoPage

NoneYet == [k \in AllKeys |-> "-"]
Zero == [k \in AllKeys |-> 0]

Init ==
    /\ disk = [p \in Paths |-> NoPage]
    /\ mergedConfig \in Configs
    /\ itemTemplate = BuiltinItemTemplate
    /\ pc = "idle"
    /\ runs = 0
    /\ feed = <<>>
    /\ groups = <<>>
    /\ cur = 0
    /\ outputFiles = <<>>
    /\ newlyCreatedPages = <<>>
    /\ writtenPaths = <<>>
    /\ totalNewItems = 0
    /\ updatedFiles = 0
    /\ error = <<>>
    /\ warned = FALSE
    /\ skipped = 0
    /\ faults = 0
    /\ outcome = NoneYet
    /\ wcount = Zero
    /\ pcount = Zero
    /\ unlinked = {}
    /\ unlinkFailed = {}
    /\ readFailed = FALSE
    /\ faulted = FALSE
    /\ disk0 = [p \in Paths |-> NoPage]
    /\ prevFeed = <<>>
    /\ prevClean = FALSE

history == <<outcome, wcount, pcount, unlinked, unlinkFailed, readFailed, faulted>>
plan == <<groups, outputFiles, newlyCreatedPages, writtenPaths, totalNewItems, updatedFiles>>

(* ------------------------------ convert ------------------------------- *)
\* a run starts: the feed has been fetched, parsed and validated
StartRun(items) ==
    /\ pc = "idle"
    /\ runs < MaxRuns
    /\ feed' = items
    /\ disk0' = disk
    /\ pc' = "load"
    /\ UNCHANGED <<disk, mergedConfig, itemTemplate, runs, cur, error, warned, skipped, faults,
                   prevFeed, prevClean, history, plan>>

\* the kinds of failure of rssParser.fetchAndParse / parseFromFile / validateFeed
FetchErrors == {<<"NETWORK", "Failed to fetch RSS feed">>,
                <<"PARSE", "Invalid XML format in RSS feed">>}

\* a run whose feed cannot be fetched or parsed: convert has no feed and ends
\* before the template is loaded
FetchFails ==
    /\ pc = "idle"
    /\ runs < MaxRuns
    /\ faults < MaxFaults
    /\ faults' = faults + 1
    /\ faulted' = TRUE
    /\ \E e \in FetchErrors : error' = e
    /\ disk0' = disk
    /\ pc' = "done"
    /\ UNCHANGED <<disk, mergedConfig, itemTemplate, runs, feed, cur, warned, skipped,
                   outcome, wcount, pcount, unlinked, unlinkFailed, readFailed,
                   prevFeed, prevClean, plan>>

\* loadTemplate: the default template, or the file read into an HTMLTemplate
LoadTemplate ==
    /\ pc = "load"
    /\ IF mergedConfig.templatePath # NoPath /\ HTMLTemplate_validate_throws(template)
       THEN /\ error' = <<"CONFIG", "Failed to load template">>
            /\ pc' = "done"
       ELSE /\ error' = error
            /\ pc' = "validate"
    /\ warned' = validate_warns(template)
    /\ UNCHANGED <<disk, mergedConfig, itemTemplate, runs, feed, cur, skipped, faults,
                   disk0, prevFeed, prevClean, history, plan>>

\* templateEngine.validateTemplate(template); fileWriter.reset()
ValidateTemplate ==
    /\ pc = "validate"
    /\ IF validateTemplate_throws(template)
       THEN /\ error' = <<"{{ITEMS}}", "must appear exactly once in template">>
            /\ pc' = "done"
       ELSE /\ error' = error
            /\ pc' = "group"
    /\ warned' = (warned \/ validate_warns(template))
    /\ UNCHANGED <<disk, mergedConfig, itemTemplate, runs, feed, cur, skipped, faults,
                   disk0, prevFeed, prevClean, history, plan>>

\* groupItemsByMonth; the run ends here when no item has a pubDate
GroupItems ==
    /\ pc = "group"
    /\ groups' = groupItemsByMonth(feed)
    /\ skipped' = countSkippedItems(feed)
    /\ IF groups' = <<>> THEN pc' = "done" /\ cur' = 0
                         ELSE pc' = "bucket" /\ cur' = 1
    /\ UNCHANGED <<disk, mergedConfig, itemTemplate, runs, feed, error, warned, faults,
                   disk0, prevFeed, prevClean, history, outputFiles, newlyCreatedPages,
                   writtenPaths, totalNewItems, updatedFiles>>

availableMonths == [i \in DOMAIN groups |-> groups[i].key]

\* the state of a bucket: CREATE without a page on disk, else NO_CHANGE or UPDATE
bucketState(isUpdate, newItems) ==
    IF ~isUpdate THEN "CREATE"
    ELSE IF newItems = <<>> THEN "NO_CHANGE"
    ELSE "UPDATE"

\* a loop without the `continue`
skipsBucket_Never(isUpdate, newItems) == FALSE

\* the `continue` of the loop: an existing page with no new item is left alone
skipsBucket(isUpdate, newItems) == isUpdate /\ newItems = <<>>

\* one iteration of the loop over monthlyGroups
ProcessBucket ==
    /\ pc = "bucket"
    /\ cur <= Len(groups)
    /\ LET yearMonth == groups[cur].key
           items     == groups[cur].items
           filePath  == generateFilePath(yearMonth)
           isUpdate  == exists(filePath)
           existingHtml  == disk[filePath]
           lastDate      == extractMetaDate(existingHtml)
           existingLinks == extractExistingLinks(existingHtml)
           newItems      == filterNewItems(items, lastDate, existingLinks)
           itemsToRender == IF isUpdate THEN newItems ELSE items
           adjacentMonths == findAdjacentMonths(yearMonth, availableMonths)
           htmlContent == generateHTML(itemTemplateAfter(itemTemplate, template), template,
                                       yearMonth, itemsToRender, adjacentMonths, time)
           finalHtml   == IF isUpdate THEN mergeHtmlContent(existingHtml, htmlContent, time)
                                      ELSE htmlContent
       IN  IF skipsBucket(isUpdate, newItems)
           THEN /\ outcome' = [outcome EXCEPT ![yearMonth] = bucketState(isUpdate, newItems)]
                /\ UNCHANGED <<itemTemplate, outputFiles, newlyCreatedPages, totalNewItems,
                               updatedFiles>>
           ELSE /\ outcome' = [outcome EXCEPT ![yearMonth] = bucketState(isUpdate, newItems)]
                /\ totalNewItems' = totalNewItems + Len(itemsToRender)
                /\ updatedFiles' = IF isUpdate THEN updatedFiles + 1 ELSE updatedFiles
                /\ newlyCreatedPages' =
                     IF ~isUpdate /\ adjacentMonths.prev # NoKey
                     THEN Append(newlyCreatedPages,
                                 [yearMonth |-> yearMonth, prevMonth |-> adjacentMonths.prev])
                     ELSE newlyCreatedPages
                /\ itemTemplate' = itemTemplateAfter(itemTemplate, template)
                /\ outputFiles' = Append(outputFiles,
                                         createMonthly(yearMonth, finalHtml,
                                                       Len(itemsToRender)))
    /\ cur' = cur + 1
    /\ UNCHANGED <<disk, mergedConfig, pc, runs, feed, groups, writtenPaths, error, warned,
                   skipped, faults, wcount, pcount, unlinked, unlinkFailed, readFailed,
                   faulted, disk0, prevFeed, prevClean>>

\* readFileSync of the existing page throws
ReadFails ==
    /\ pc = "bucket"
    /\ cur <= Len(groups)
    /\ exists(generateFilePath(groups[cur].key))
    /\ faults < MaxFaults
    /\ faults' = faults + 1
    /\ faulted' = TRUE
    /\ readFailed' = TRUE
    /\ error' = <<"EACCES:", "permission denied, open">>
    /\ pc' = "done"
    /\ UNCHANGED <<disk, mergedConfig, itemTemplate, runs, feed, cur, warned, skipped,
                   outcome, wcount, pcount, unlinked, unlinkFailed, disk0, prevFeed,
                   prevClean, plan>>

\* the loop is over: nothing to write, or validateOutputDirectory passes
EndBuckets ==
    /\ pc = "bucket"
    /\ cur > Len(groups)
    /\ IF outputFiles = <<>> THEN pc' = "done" /\ cur' = 0
                             ELSE pc' = "write" /\ cur' = 1
    /\ UNCHANGED <<disk, mergedConfig, itemTemplate, runs, feed, error, warned, skipped, faults,
                   disk0, prevFeed, prevClean, history, plan>>

\* validateOutputDirectory throws: the directory is not writable
ValidateDirFails ==
    /\ pc = "bucket"
    /\ cur > Len(groups)
    /\ outputFiles # <<>>
    /\ faults < MaxFaults
    /\ faults' = faults + 1
    /\ faulted' = TRUE
    /\ error' = <<"FILESYSTEM", "Directory not writable">>
    /\ pc' = "done"
    /\ UNCHANGED <<disk, mergedConfig, itemTemplate, runs, feed, cur, warned, skipped,
                   outcome, wcount, pcount, unlinked, unlinkFailed, readFailed, disk0,
                   prevFeed, prevClean, plan>>

(* ------------------------------ FileWriter ---------------------------- *)
\* a cleanup that leaves the first written file behind
cleanupFiles_SkipFirst(filePaths) ==
    IF filePaths = <<>> THEN <<>> ELSE Tail(filePaths)

\* cleanupFiles(filePaths): the paths it goes through, in order
cleanupFiles(filePaths) == filePaths

\* writeFiles: writeFile of the next output file succeeds
WriteFileOk ==
    /\ pc = "write"
    /\ cur <= Len(outputFiles)
    /\ LET f == outputFiles[cur]
       IN  /\ disk' = [disk EXCEPT ![f.filename] = f.content]
           /\ writtenPaths' = Append(writtenPaths, f.filename)
           /\ wcount' = [wcount EXCEPT ![f.key] = @ + 1]
    /\ IF cur = Len(outputFiles) THEN pc' = "patch" /\ cur' = 1
                                 ELSE pc' = "write" /\ cur' = cur + 1
    /\ UNCHANGED <<mergedConfig, itemTemplate, runs, feed, groups, outputFiles,
                   newlyCreatedPages, totalNewItems, updatedFiles, error, warned, skipped,
                   faults, outcome, pcount, unlinked, unlinkFailed, readFailed, faulted,
                   disk0, prevFeed, prevClean>>

\* a convert that swallows the failure of the batch and goes on to the patches
WriteFileFails_ThenPatches ==
    /\ pc = "write"
    /\ cur <= Len(outputFiles)
    /\ faults < MaxFaults
    /\ faults' = faults + 1
    /\ faulted' = TRUE
    /\ error' = <<"FILESYSTEM", "Permission denied: cannot write">>
    /\ pc' = "patch"
    /\ cur' = 1
    /\ UNCHANGED <<disk, mergedConfig, itemTemplate, runs, feed, warned, skipped, outcome,
                   wcount, pcount, unlinked, unlinkFailed, readFailed, disk0, prevFeed,
                   prevClean, plan>>

\* writeFile throws: writeFiles goes on to cleanupFiles(writtenPaths) and rethrows
WriteFileFails ==
    /\ pc = "write"
    /\ cur <= Len(outputFiles)
    /\ faults < MaxFaults
    /\ faults' = faults + 1
    /\ faulted' = TRUE
    /\ error' = <<"FILESYSTEM", "Permission denied: cannot write">>
    /\ IF cleanupFiles(writtenPaths) = <<>> THEN pc' = "done" /\ cur' = 0
                                            ELSE pc' = "cleanup" /\ cur' = 1
    /\ UNCHANGED <<disk, mergedConfig, itemTemplate, runs, feed, warned, skipped, outcome,
                   wcount, pcount, unlinked, unlinkFailed, readFailed, disk0, prevFeed,
                   prevClean, plan>>

\* cleanupFiles: unlinkSync of the next path succeeds
CleanupOk ==
    /\ pc = "cleanup"
    /\ cur <= Len(cleanupFiles(writtenPaths))
    /\ disk' = [disk EXCEPT ![cleanupFiles(writtenPaths)[cur]] = NoPage]
    /\ unlinked' = unlinked \cup {cleanupFiles(writtenPaths)[cur]}
    /\ IF cur = Len(cleanupFiles(writtenPaths)) THEN pc' = "done" /\ cur' = 0
                                                ELSE pc' = "cleanup" /\ cur' = cur + 1
    /\ UNCHANGED <<mergedConfig, itemTemplate, runs, feed, error, warned, skipped, faults,
                   outcome, wcount, pcount, unlinkFailed, readFailed, faulted, disk0,
                   prevFeed, prevClean, plan>>

\* cleanupFiles: unlinkSync throws; the error is logged and the loop goes on
CleanupFails ==
    /\ pc = "cleanup"
    /\ cur <= Len(cleanupFiles(writtenPaths))
    /\ faults < MaxFaults
    /\ faults' = faults + 1
    /\ unlinkFailed' = unlinkFailed \cup {cleanupFiles(writtenPaths)[cur]}
    /\ IF cur = Len(cleanupFiles(writtenPaths)) THEN pc' = "done" /\ cur' = 0
                                  ELSE pc' = "cleanup" /\ cur' = cur + 1
    /\ UNCHANGED <<disk, mergedConfig, itemTemplate, runs, feed, error, warned, skipped,
                   outcome, wcount, pcount, unlinked, readFailed, faulted, disk0,
                   prevFeed, prevClean, plan>>

(* ------------------------------ navigation patch ---------------------- *)
\* one iteration of the loop over newlyCreatedPages
PatchStep ==
    /\ pc = "patch"
    /\ cur <= Len(newlyCreatedPages)
    /\ LET yearMonth == newlyCreatedPages[cur].yearMonth
           prevMonth == newlyCreatedPages[cur].prevMonth
           prevFilePath == generateFilePath(prevMonth)
           prevHtml  == disk[prevFilePath]
           updatedHtml == updateNextLink(prevHtml, yearMonth, prevMonth)
       IN  IF exists(prevFilePath) /\ updatedHtml # prevHtml
           THEN /\ disk' = [disk EXCEPT ![prevFilePath] = updatedHtml]
                /\ pcount' = [pcount EXCEPT ![prevMonth] = @ + 1]
           ELSE UNCHANGED <<disk, pcount>>
    /\ cur' = cur + 1
    /\ UNCHANGED <<mergedConfig, itemTemplate, pc, runs, feed, error, warned, skipped, faults,
                   outcome, wcount, unlinked, unlinkFailed, readFailed, faulted, disk0,
                   prevFeed, prevClean, plan>>

\* readFileSync or writeFileSync of the earlier page throws
PatchFails ==
    /\ pc = "patch"
    /\ cur <= Len(newlyCreatedPages)
    /\ exists(generateFilePath(newlyCreatedPages[cur].prevMonth))
    /\ faults < MaxFaults
    /\ faults' = faults + 1
    /\ faulted' = TRUE
    /\ error' = <<"EACCES:", "permission denied, open">>
    /\ pc' = "done"
    /\ UNCHANGED <<disk, mergedConfig, itemTemplate, runs, feed, cur, warned, skipped,
                   outcome, wcount, pcount, unlinked, unlinkFailed, readFailed, disk0,
                   prevFeed, prevClean, plan>>

\* the loop over newlyCreatedPages is over: convert builds its result
EndPatches ==
    /\ pc = "patch"
    /\ cur > Len(newlyCreatedPages)
    /\ pc' = "done"
    /\ cur' = 0
    /\ UNCHANGED <<disk, mergedConfig, itemTemplate, runs, feed, error, warned, skipped, faults,
                   disk0, prevFeed, prevClean, history, plan>>

\* convert returns; the process exits
Finish ==
    /\ pc = "done"
    /\ pc' = "idle"
    /\ runs' = runs + 1
    /\ prevFeed' = feed
    /\ prevClean' = (error = <<>> /\ ~faulted)
    /\ feed' = <<>>
    /\ groups' = <<>>
    /\ cur' = 0
    /\ outputFiles' = <<>>
    /\ newlyCreatedPages' = <<>>
    /\ writtenPaths' = <<>>
    /\ totalNewItems' = 0
    /\ updatedFiles' = 0
    /\ error' = <<>>
    /\ warned' = FALSE
    /\ skipped' = 0
    /\ outcome' = NoneYet
    /\ wcount' = Zero
    /\ pcount' = Zero
    /\ unlinked' = {}
    /\ unlinkFailed' = {}
    /\ readFailed' = FALSE
    /\ faulted' = FALSE
    /\ itemTemplate' = BuiltinItemTemplate
    /\ disk0' = disk
    /\ UNCHANGED <<disk, mergedConfig, faults>>

Next ==
    \/ \E items \in Feeds : StartRun(items)
    \/ FetchFails
    \/ LoadTemplate
    \/ ValidateTemplate
    \/ GroupItems
    \/ ProcessBucket
    \/ ReadFails
    \/ EndBuckets
    \/ ValidateDirFails
    \/ WriteFileOk
    \/ WriteFileFails
    \/ CleanupOk
    \/ CleanupFails
    \/ PatchStep
    \/ PatchFails
    \/ EndPatches
    \/ Finish

Spec == Init /\ [][Next]_vars

(* ------------------------------ the entry renderer alone ------------- *)
\* entry templates: the built-in one, one with the title and the author
\* section, one with two author sections around the categories section
TitleAuthorTemplate ==
    <<"{{ITEM_TITLE}}", "{{#ITEM_AUTHOR}}", "by", "{{ITEM_AUTHOR}}", "{{/ITEM_AUTHOR}}">>

TwoAuthorSectionsTemplate ==
    <<"{{#ITEM_AUTHOR}}", "by", "{{ITEM_AUTHOR}}", "{{/ITEM_AUTHOR}}", "{{ITEM_TITLE}}",
      "{{#ITEM_CATEGORIES}}", "Tags:", "{{ITEM_CATEGORIES}}", "{{/ITEM_CATEGORIES}}",
      "{{#ITEM_AUTHOR}}", "by", "{{/ITEM_AUTHOR}}">>

ItemTemplates == {BuiltinItemTemplate, TitleAuthorTemplate, TwoAuthorSectionsTemplate}

AmpersandTitle == <<"A", " ", "&", " ", "B", " ", "<", "C", "o", ">">>
RenderTitles == {<<"A">>, AmpersandTitle, <<"\"", "'">>}
RenderAuthors == {<<>>, <<"A", "l">>, <<"<", "b", ">">>, <<" ">>}
RenderCategories == {<<>>, <<<<"x", "&">>, <<"y">>>>, <<<<"x">>>>}

RenderItems ==
    {[Entry(t, La, Date(2024, 12, 1), 0) EXCEPT !.author = a, !.categories = c] :
        t \in RenderTitles, a \in RenderAuthors, c \in RenderCategories}

\* an engine with an entry template and one entry to render
InitRender ==
    /\ disk = [p \in Paths |-> NoPage]
    /\ mergedConfig = [templatePath |-> NoPath, template |-> NoPath]
    /\ itemTemplate \in ItemTemplates
    /\ pc = "render"
    /\ runs = 0
    /\ \E item \in RenderItems : feed = <<item>>
    /\ groups = <<>>
    /\ cur = 0
    /\ outputFiles = <<>>
    /\ newlyCreatedPages = <<>>
    /\ writtenPaths = <<>>
    /\ totalNewItems = 0
    /\ updatedFiles = 0
    /\ error = <<>>
    /\ warned = FALSE
    /\ skipped = 0
    /\ faults = 0
    /\ outcome = NoneYet
    /\ wcount = Zero
    /\ pcount = Zero
    /\ unlinked = {}
    /\ unlinkFailed = {}
    /\ readFailed = FALSE
    /\ faulted = FALSE
    /\ disk0 = [p \in Paths |-> NoPage]
    /\ prevFeed = <<>>
    /\ prevClean = FALSE

\* generateItemHTML(item): the rendered entry is kept as the content of an
\* output file
RenderItem ==
    /\ pc = "render"
    /\ outputFiles' = <<createMonthly(getYearMonthKey(feed[1].pubDate),
                                       generateItemHTML(itemTemplate, feed[1]), 1)>>
    /\ pc' = "rendered"
    /\ UNCHANGED <<disk, mergedConfig, itemTemplate, runs, feed, groups, cur,
                   newlyCreatedPages, writtenPaths, totalNewItems, updatedFiles, error,
                   warned, skipped, faults, history, disk0, prevFeed, prevClean>>

NextRender == RenderItem

SpecRender == InitRender /\ [][NextRender]_vars

(* ------------------------------ the navigation patch alone ----------- *)
\* the default layout with the navigation above and below the entries
TwoNavTemplate ==
    <<"<head>", "<meta-date>", "{{FEED_TITLE}}", "{{MONTHLY_NAV}}",
      "<main>", "{{ITEMS}}", "</main>", "{{MONTHLY_NAV}}">>

PatchTemplates == {DefaultTemplate, TwoNavTemplate, ReadmeTemplate}

\* the page of month k as an earlier run rendered it with template tpl, when
\* the buckets of that run were months
RenderedPage(tpl, k, months, items, at) ==
    generateHTML(itemTemplateAfter(BuiltinItemTemplate, tpl), tpl, k, items,
                 findAdjacentMonths(k, KeysDesc(months)), at)

EntriesOfMonth(k) == {e \in Entries : hasPubDate(e) /\ getYearMonthKey(e.pubDate) = k}

\* convert has written the page of a month created in this run and is about to
\* patch the page of the month before it, which an earlier run left on disk
InitPatch ==
    \E tpl \in PatchTemplates, k \in AllKeys, n \in AllKeys, months \in SUBSET AllKeys,
       items \in Feeds, created \in Entries :
        /\ KeyLess(k, n)
        /\ k \in months
        /\ Range(items) \subseteq EntriesOfMonth(k)
        /\ created \in EntriesOfMonth(n)
        /\ LET earlier == RenderedPage(tpl, k, months, items, 1)
               fresh   == RenderedPage(tpl, n, {k, n}, <<created>>, 2)
           IN  /\ disk = [p \in Paths |->
                            IF p = generateFilePath(k) THEN earlier
                            ELSE IF p = generateFilePath(n) THEN fresh
                            ELSE NoPage]
               /\ disk0 = [p \in Paths |->
                            IF p = generateFilePath(k) THEN earlier ELSE NoPage]
               /\ outputFiles = <<createMonthly(n, fresh, 1)>>
        /\ mergedConfig = [templatePath |-> IF tpl = DefaultTemplate THEN NoPath ELSE tpl,
                           template |-> NoPath]
        /\ itemTemplate = itemTemplateAfter(BuiltinItemTemplate, tpl)
        /\ pc = "patch"
        /\ runs = 1
        /\ feed = <<created, items[1]>>
        /\ groups = groupItemsByMonth(<<created, items[1]>>)
        /\ cur = 1
        /\ newlyCreatedPages = <<[yearMonth |-> n, prevMonth |-> k]>>
        /\ writtenPaths = <<generateFilePath(n)>>
        /\ totalNewItems = 1
        /\ updatedFiles = 0
        /\ error = <<>>
        /\ warned = FALSE
        /\ skipped = 0
        /\ faults = 0
        /\ outcome = [NoneYet EXCEPT ![n] = "CREATE", ![k] = "NO_CHANGE"]
        /\ wcount = [Zero EXCEPT ![n] = 1]
        /\ pcount = Zero
        /\ unlinked = {}
        /\ unlinkFailed = {}
        /\ readFailed = FALSE
        /\ faulted = FALSE
        /\ prevFeed = items
        /\ prevClean = TRUE

NextPatch == PatchStep \/ EndPatches

SpecPatch == InitPatch /\ [][NextPatch]_vars

(* ------------------------------ one TemplateEngine, several calls ----- *)
\* templates that pass validation: bare marker, block with a link, block
\* without a link, bare marker without title
EngineTemplates == {DefaultTemplate, ReadmeTemplate, TestTemplate, NoTitleTemplate}

DatedFeeds == {f \in Feeds : \A i \in DOMAIN f : hasPubDate(f[i])}

\* new TemplateEngine(): the built-in entry template, nothing rendered yet
InitEngine ==
    /\ disk = [p \in Paths |-> NoPage]
    /\ mergedConfig = [templatePath |-> NoPath, template |-> NoPath]
    /\ itemTemplate = BuiltinItemTemplate
    /\ pc = "engine"
    /\ runs = 0
    /\ feed = <<>>
    /\ groups = <<>>
    /\ cur = 0
    /\ outputFiles = <<>>
    /\ newlyCreatedPages = <<>>
    /\ writtenPaths = <<>>
    /\ totalNewItems = 0
    /\ updatedFiles = 0
    /\ error = <<>>
    /\ warned = FALSE
    /\ skipped = 0
    /\ faults = 0
    /\ outcome = NoneYet
    /\ wcount = Zero
    /\ pcount = Zero
    /\ unlinked = {}
    /\ unlinkFailed = {}
    /\ readFailed = FALSE
    /\ faulted = FALSE
    /\ disk0 = [p \in Paths |-> NoPage]
    /\ prevFeed = <<>>
    /\ prevClean = FALSE

\* the month and the neighbours convert passes for the first bucket of items
firstBucket(items) == groupItemsByMonth(items)[1]
neighbours(items) ==
    findAdjacentMonths(firstBucket(items).key,
                       [i \in DOMAIN groupItemsByMonth(items) |-> groupItemsByMonth(items)[i].key])

\* generateHTML(feed, template, options) on the engine: the entry template of a
\* block-form template is stored in the engine, then the page is rendered
\* with the entry template the engine holds
GenerateHTML(content, items) ==
    /\ pc = "engine"
    /\ runs < MaxCalls
    /\ itemTemplate' = itemTemplateAfter(itemTemplate, content)
    /\ mergedConfig' = [templatePath |-> IF content = DefaultTemplate THEN NoPath ELSE content,
                        template |-> NoPath]
    /\ feed' = items
    /\ outputFiles' =
          <<createMonthly(firstBucket(items).key,
                          generateHTML(itemTemplateAfter(itemTemplate, content), content,
                                       firstBucket(items).key, firstBucket(items).items,
                                       neighbours(items), time),
                          Len(firstBucket(items).items))>>
    /\ runs' = runs + 1
    /\ UNCHANGED <<disk, pc, groups, cur, newlyCreatedPages, writtenPaths, totalNewItems,
                   updatedFiles, error, warned, skipped, faults, history, disk0, prevFeed,
                   prevClean>>

NextEngine == \E content \in EngineTemplates, items \in DatedFeeds : GenerateHTML(content, items)

SpecEngine == InitEngine /\ [][NextEngine]_vars

(* ------------------------------ neighbours and relative paths -------- *)
\* month keys for the two functions: two months of 2024, two of 2025
NavKeys == AllKeys \cup {<<2025, 2>>}

\* key lists without repetition, in any order
KeyLists == SeqsNoRep(NavKeys, Cardinality(NavKeys))

\* a month and a list of months are given; groups carries the list (its keys
\* are availableMonths), newlyCreatedPages the month and, once computed, its
\* neighbours; the output root is empty or holds pages
InitNavigation ==
    /\ \E allKeys \in KeyLists :
          groups = [i \in DOMAIN allKeys |-> [key |-> allKeys[i], items |-> <<>>]]
    /\ \E key \in NavKeys :
          newlyCreatedPages = <<[yearMonth |-> key, prevMonth |-> NoKey, nextMonth |-> NoKey]>>
    /\ disk \in {[p \in Paths |-> NoPage], [p \in Paths |-> <<Plain("head")>>]}
    /\ disk0 = disk
    /\ mergedConfig = [templatePath |-> NoPath, template |-> NoPath]
    /\ itemTemplate = BuiltinItemTemplate
    /\ pc = "adjacent"
    /\ runs = 0
    /\ feed = <<>>
    /\ cur = 0
    /\ outputFiles = <<>>
    /\ writtenPaths = <<>>
    /\ totalNewItems = 0
    /\ updatedFiles = 0
    /\ error = <<>>
    /\ warned = FALSE
    /\ skipped = 0
    /\ faults = 0
    /\ outcome = NoneYet
    /\ wcount = Zero
    /\ pcount = Zero
    /\ unlinked = {}
    /\ unlinkFailed = {}
    /\ readFailed = FALSE
    /\ faulted = FALSE
    /\ prevFeed = <<>>
    /\ prevClean = FALSE

\* findAdjacentMonths(key, availableMonths)
FindAdjacent ==
    /\ pc = "adjacent"
    /\ LET key == newlyCreatedPages[1].yearMonth
           adjacentMonths == findAdjacentMonths(key, availableMonths)
       IN  newlyCreatedPages' = <<[yearMonth |-> key, prevMonth |-> adjacentMonths.prev,
                                   nextMonth |-> adjacentMonths.next]>>
    /\ pc' = "path"
    /\ UNCHANGED <<disk, mergedConfig, itemTemplate, runs, feed, groups, cur, outputFiles,
                   writtenPaths, totalNewItems, updatedFiles, error, warned, skipped,
                   faults, history, disk0, prevFeed, prevClean>>

\* generateRelativePath(key, next) and generateRelativePath(key, prev), as
\* createMonthlyNavigation asks for them; the paths are kept in writtenPaths,
\* an empty path standing for a neighbour that is absent
RelativePaths ==
    /\ pc = "path"
    /\ LET q == newlyCreatedPages[1]
       IN  writtenPaths' =
             <<IF q.nextMonth # NoKey THEN generateRelativePath(q.yearMonth, q.nextMonth)
                                      ELSE <<>>,
               IF q.prevMonth # NoKey THEN generateRelativePath(q.yearMonth, q.prevMonth)
                                      ELSE <<>>>>
    /\ pc' = "linked"
    /\ UNCHANGED <<disk, mergedConfig, itemTemplate, runs, feed, groups, cur, outputFiles,
                   newlyCreatedPages, totalNewItems, updatedFiles, error, warned, skipped,
                   faults, history, disk0, prevFeed, prevClean>>

NextNavigation == FindAdjacent \/ RelativePaths

SpecNavigation == InitNavigation /\ [][NextNavigation]_vars

(* ------------------------------ command line -------------------------- *)
\* ErrorHandler.exitCodes
exitCodes == [SUCCESS |-> 0, NETWORK_ERROR |-> 1, PARSE_ERROR |-> 2,
              FILESYSTEM_ERROR |-> 3, CONFIG_ERROR |-> 4]

\* ErrorHandler.handleNodeJSError: the exit code for error.code
handleNodeJSError(code) ==
    IF code \in {"ENOENT", "EACCES", "EPERM", "ENOSPC", "ENOTDIR", "EISDIR"}
    THEN exitCodes.FILESYSTEM_ERROR
    ELSE exitCodes.CONFIG_ERROR

\* ErrorHandler.categorizeError: the exit code for an error with this message
\* and this error.code ("" when it has none)
ErrorHandler_categorizeError(message, code) ==
    LET word == IF message = <<>> THEN "" ELSE Head(message)
    IN  IF word = "NETWORK" THEN exitCodes.NETWORK_ERROR
        ELSE IF word = "PARSE" THEN exitCodes.PARSE_ERROR
        ELSE IF word = "FILESYSTEM" THEN exitCodes.FILESYSTEM_ERROR
        ELSE IF word = "CONFIG" THEN exitCodes.CONFIG_ERROR
        ELSE IF code # "" THEN handleNodeJSError(code)
        ELSE exitCodes.CONFIG_ERROR

\* result.error.type.toUpperCase()
toUpperCase(type) ==
    CASE type = "network" -> "NETWORK"
      [] type = "parse" -> "PARSE"
      [] type = "filesystem" -> "FILESYSTEM"
      [] type = "config" -> "CONFIG"
      [] OTHER -> "UNKNOWN"

\* the code the command line exits with once convert has returned: 0 for a
\* result with success, else that of new Error(TYPE + " " + message)
exitCode ==
    IF error = <<>> THEN exitCodes.SUCCESS
    ELSE ErrorHandler_categorizeError(<<toUpperCase(categorizeError(error))>> \o error, "")

(* ====================================================================== *)
(* Properties                                                             *)
(* ====================================================================== *)
\* the page of month key k now, and when the run started
pageOf(k) == disk[generateFilePath(k)]
pageBefore(k) == disk0[generateFilePath(k)]

ItemsOf(page) == SelectSeq(page, LAMBDA tok : tok.t = "item")
Titles(page) == [i \in DOMAIN ItemsOf(page) |-> ItemsOf(page)[i].title]
EntryTitles(items) == [i \in DOMAIN items |-> escapeHTML(items[i].title)]

\* how many entries page renders with the link
Renderings(page, link) ==
    Cardinality({i \in DOMAIN page : page[i].t = "item" /\ page[i].h2 /\ page[i].href = link})

NoWrites == \A k \in AllKeys : wcount[k] = 0 /\ pcount[k] = 0
Succeeded == pc = "done" /\ error = <<>>
TemplateRejected == error # <<>> /\ Head(error) \in {"CONFIG", "{{ITEMS}}"}

(* ---------------------------------------------------------------------- *)
\* C1: a second run on the same output root with the same entries as a first,
\* successful run writes no file, ends NO_CHANGE for every bucket and leaves
\* every file as it was.
C1_IdempotentRerun ==
    (pc = "done" /\ prevClean /\ feed = prevFeed /\ ~faulted)
        => /\ NoWrites
           /\ \A k \in AllKeys : outcome[k] \in {"NO_CHANGE", "-"}
           /\ disk = disk0

(* ---------------------------------------------------------------------- *)
\* entry number i of the feed is re-supplied: some page on disk at the start of
\* the run has its link among the known links
Resupplied(i) == \E k \in AllKeys : feed[i].link \in extractExistingLinks(pageBefore(k))

\* C2 as claimed: when a page's known links include the link of X and X is
\* supplied again, no page at all gains a rendering of X in that run.
C2_NoPageGainsRendering ==
    \A i \in DOMAIN feed : Resupplied(i) =>
        \A k \in AllKeys : Renderings(pageOf(k), feed[i].link) <= Renderings(pageBefore(k), feed[i].link)

\* C2 as amended: when a page's known links include the link of X and X is
\* supplied again, with whatever timestamp or description, that page gains no
\* rendering of X in that run.
C2_KnownPageGainsNoRendering ==
    \A i \in DOMAIN feed : \A k \in AllKeys :
        feed[i].link \in extractExistingLinks(pageBefore(k))
            => Renderings(pageOf(k), feed[i].link) <= Renderings(pageBefore(k), feed[i].link)

\* a page that knows the link of A was updated by a run that supplied A again
\* with a new timestamp and a modified description
C2_Witness ==
    /\ Succeeded
    /\ \E i \in DOMAIN feed : feed[i] = eA2
    /\ La \in extractExistingLinks(pageBefore(<<2024, 12>>))
    /\ outcome[<<2024, 12>>] = "UPDATE"
    /\ wcount[<<2024, 12>>] = 1

(* ---------------------------------------------------------------------- *)
\* the entries of bucket k that the run found to be new, newest first
NewEntriesOf(k) ==
    LET i == CHOOSE j \in DOMAIN groups : groups[j].key = k
    IN  filterNewItems(groups[i].items, extractMetaDate(pageBefore(k)),
                       extractExistingLinks(pageBefore(k)))

\* C3: after an UPDATE the entries of the page are the new entries, newest
\* first, followed by the entries the page had before, in their previous order.
C3_MergeOrder ==
    Succeeded => \A k \in AllKeys :
        outcome[k] = "UPDATE"
            => Titles(pageOf(k)) = EntryTitles(NewEntriesOf(k)) \o Titles(pageBefore(k))

(* ---------------------------------------------------------------------- *)
\* page has an active forward link to month key K, written as seen from month P
HasForwardLink(page, P, K) ==
    \E i \in DOMAIN page :
        /\ page[i].t = "next_link"
        /\ page[i].key = K
        /\ page[i].href = generateRelativePath(P, K)

\* C4: when a run creates the page of bucket K and the page of the preceding
\* bucket P was already on disk, P's page has an active forward link to K after
\* the run.
C4_NavigationBackfill ==
    Succeeded => \A K \in AllKeys :
        LET P == findAdjacentMonths(K, availableMonths).prev
        IN  (outcome[K] = "CREATE" /\ P # NoKey /\ pageBefore(P) # NoPage)
                => HasForwardLink(pageOf(P), P, K)

(* ---------------------------------------------------------------------- *)
Undated == {i \in DOMAIN feed : feed[i].pubDate = NullDate}
DatedTitles == {escapeHTML(e.title) : e \in {x \in Entries : hasPubDate(x)}}
Grouped == pc \in {"bucket", "write", "cleanup", "patch"} \/ (pc = "done" /\ ~TemplateRejected)

WrittenStates == {"CREATE", "UPDATE"}

\* C6 as claimed: in any run the page of a NO_CHANGE bucket is not touched and
\* the page of a CREATE or UPDATE bucket is written exactly once.
C6_TouchedExactlyOnce ==
    Succeeded => \A k \in AllKeys :
        /\ outcome[k] = "NO_CHANGE" => (wcount[k] + pcount[k] = 0 /\ pageOf(k) = pageBefore(k))
        /\ outcome[k] \in WrittenStates => wcount[k] + pcount[k] = 1

\* C6 as amended: the write batch never writes the page of a NO_CHANGE bucket
\* and, in a run that succeeds, writes the page of a CREATE or UPDATE bucket
\* exactly once; besides that only the navigation patch touches a page, at most
\* once, and a page neither written nor patched is as it was.
C6_BatchWritesOnce ==
    \A k \in AllKeys :
        /\ outcome[k] = "NO_CHANGE" => wcount[k] = 0
        /\ wcount[k] > 0 => (wcount[k] = 1 /\ outcome[k] \in WrittenStates)
        /\ (Succeeded /\ outcome[k] \in WrittenStates) => wcount[k] = 1
        /\ pcount[k] <= 1
        /\ (wcount[k] = 0 /\ pcount[k] = 0) => pageOf(k) = pageBefore(k)

\* a run that succeeded left one bucket NO_CHANGE, its page as it was, and
\* wrote the page of another bucket
C6_Witness ==
    /\ Succeeded
    /\ \E k \in AllKeys : outcome[k] = "NO_CHANGE" /\ pcount[k] = 0 /\ pageOf(k) = pageBefore(k)
    /\ \E k \in AllKeys : outcome[k] = "UPDATE" /\ wcount[k] = 1 /\ pageOf(k) # pageBefore(k)

(* ---------------------------------------------------------------------- *)
\* writeFiles threw after it had written at least one file
BatchFailed ==
    /\ pc = "done"
    /\ error # <<>>
    /\ Head(error) = "FILESYSTEM"
    /\ writtenPaths # <<>>

\* C7 as claimed: when a write of the batch fails, every file the batch had
\* written is deleted before the error is propagated, and the error is a
\* filesystem failure.
C7_AllWrittenDeleted ==
    BatchFailed =>
        /\ \A p \in Range(writtenPaths) : disk[p] = NoPage
        /\ categorizeError(error) = "filesystem"

\* C7 as amended: when a write of the batch fails, the deletion of every file
\* the batch had written is attempted before the error is propagated; each is
\* gone unless its own deletion failed; the error is a filesystem failure.
C7_AllWrittenCleanedUp ==
    BatchFailed =>
        /\ \A p \in Range(writtenPaths) :
              \/ p \in unlinked /\ disk[p] = NoPage
              \/ p \in unlinkFailed
        /\ categorizeError(error) = "filesystem"

\* the second write of a batch failed and the first file was deleted
C7_Witness ==
    /\ BatchFailed
    /\ Len(outputFiles) = 2
    /\ Len(writtenPaths) = 1
    /\ writtenPaths[1] \in unlinked
    /\ disk[writtenPaths[1]] = NoPage

(* ---------------------------------------------------------------------- *)
\* C8: when an existing page cannot be read the run fails with a failure of
\* kind filesystem and writes no page.
C8_UnreadablePageIsFilesystemFailure ==
    (pc = "done" /\ readFailed) =>
        /\ error # <<>>
        /\ categorizeError(error) = "filesystem"
        /\ NoWrites
        /\ disk = disk0

(* ---------------------------------------------------------------------- *)
\* C9: a template whose bare {{ITEMS}} markers and {{#ITEMS}} openers are not
\* exactly one in total is rejected with an error, and a run that uses it
\* creates or modifies no file.
C9_EntriesRegionExactlyOnce ==
    totalItemsCount(template) # 1 =>
        /\ pc \in {"idle", "load", "validate", "done"}
        /\ pc = "done" => error # <<>>
        /\ NoWrites
        /\ disk = disk0
        /\ \A k \in AllKeys : pageOf(k) = NoPage

\* a run with dated entries and a template without entries region was rejected
C9_Witness ==
    /\ pc = "done"
    /\ totalItemsCount(template) = 0
    /\ TemplateRejected
    /\ \E i \in DOMAIN feed : hasPubDate(feed[i])

(* ---------------------------------------------------------------------- *)
\* the run ended before a template was loaded: the feed could not be fetched
FetchFailed == error # <<>> /\ Head(error) \in {"NETWORK", "PARSE"}

\* C10 as claimed: a template without {{FEED_TITLE}} is rejected by validation
\* as an error and the run writes nothing.
C10_MissingTitleRejected ==
    (~hasPlaceholder(template, "{{FEED_TITLE}}") /\ pc = "done") =>
        /\ error # <<>>
        /\ NoWrites

\* C10 as amended: a template without {{FEED_TITLE}}, once loaded, draws only a
\* warning; with exactly one entries region it is accepted and the run goes on
\* to write its pages.
C10_MissingTitleWarns ==
    ~hasPlaceholder(template, "{{FEED_TITLE}}") =>
        /\ (pc \notin {"idle", "load"} /\ ~FetchFailed) => warned
        /\ (totalItemsCount(template) = 1 /\ pc = "done" /\ ~faulted) => error = <<>>
        /\ (totalItemsCount(template) = 1 /\ Succeeded)
              => \A i \in DOMAIN groups : outcome[groups[i].key] = "NO_CHANGE"
                                          \/ wcount[groups[i].key] = 1

\* a run with a template without {{FEED_TITLE}} succeeded and wrote a page
C10_Witness ==
    /\ Succeeded
    /\ ~hasPlaceholder(template, "{{FEED_TITLE}}")
    /\ warned
    /\ \E k \in AllKeys : wcount[k] = 1 /\ pageOf(k) # NoPage

(* ---------------------------------------------------------------------- *)
\* the kind of the failure of the run, by what failed
FailureKind ==
    CASE error = <<>> -> "none"
      [] error # <<>> /\ Head(error) = "NETWORK" -> "network"
      [] error # <<>> /\ Head(error) = "PARSE" -> "parse"
      [] error # <<>> /\ Head(error) \in {"FILESYSTEM", "EACCES:"} -> "filesystem"
      [] OTHER -> "config"

ExitCodeOfKind ==
    [none |-> 0, network |-> 1, parse |-> 2, filesystem |-> 3, config |-> 4]

\* C11: a run exits with 0 on success, also when it adds nothing, and on
\* failure with the code of its failure kind: 1 network, 2 parse,
\* 3 filesystem, 4 configuration.
C11_ExitCodeOfFailureKind ==
    pc = "done" => exitCode = ExitCodeOfKind[FailureKind]

(* ---------------------------------------------------------------------- *)
\* what convert renders for a bucket without a page when the template is content
CreatedFrom(content, i) ==
    generateHTML(itemTemplateAfter(BuiltinItemTemplate, content), content, groups[i].key,
                 groups[i].items, findAdjacentMonths(groups[i].key, availableMonths), time)

\* C12: with --template FILE the pages of the run are rendered from the
\* template in FILE instead of the built-in default template.
C12_TemplateOptionUsed ==
    mergedConfig.template # NoPath =>
        \A f \in DOMAIN outputFiles : \A i \in DOMAIN groups :
            (groups[i].key = outputFiles[f].key /\ outcome[groups[i].key] = "CREATE")
                => outputFiles[f].content = CreatedFrom(mergedConfig.template, i)

(* ---------------------------------------------------------------------- *)
\* month keys of the dated entries of the feed
SuppliedMonths == {getYearMonthKey(feed[i].pubDate) : i \in {j \in DOMAIN feed : hasPubDate(feed[j])}}
PagesOn(d) == {p \in DOMAIN d : d[p] # NoPage}

\* C13: a successful run leaves on disk exactly the pages it found and the
\* files YYYY/YYYY-MM.html of the year-months of its dated entries, so that from
\* an empty output root successful runs leave exactly one file per month with
\* an entry supplied so far and no other file.
C13_OneFilePerMonth ==
    /\ DOMAIN disk = {generateFilePath(k) : k \in AllKeys}
    /\ Succeeded =>
         PagesOn(disk) = PagesOn(disk0) \cup {generateFilePath(k) : k \in SuppliedMonths}
    /\ (Succeeded /\ runs = 0) =>
         PagesOn(disk) = {generateFilePath(k) : k \in SuppliedMonths}

\* a second successful run created the page of a month beside an existing one
C13_Witness ==
    /\ Succeeded
    /\ runs = 1
    /\ PagesOn(disk0) = {<<"2024", "/", "2024", "-", "12", ".html">>}
    /\ PagesOn(disk) = {<<"2024", "/", "2024", "-", "12", ".html">>,
                        <<"2025", "/", "2025", "-", "0", "1", ".html">>}
    /\ wcount[<<2025, 1>>] = 1

(* ---------------------------------------------------------------------- *)
UnknownPlaceholder == "{{UNKNOWN_PLACEHOLDER}}"

\* how often html holds the text tok verbatim
Verbatim(html, tok) ==
    Cardinality({i \in DOMAIN html : html[i].t = "literal" /\ html[i].title = <<tok>>})

\* C14: a placeholder that is no recognized field is in the output as that
\* exact text, as often as in the template, on every page rendered, written or
\* merged, and it makes no run fail.
C14_UnknownPlaceholderVerbatim ==
    /\ \A p \in DOMAIN disk : disk[p] # NoPage =>
          Verbatim(disk[p], UnknownPlaceholder) = TCount(template, UnknownPlaceholder)
    /\ \A f \in DOMAIN outputFiles :
          Verbatim(outputFiles[f].content, UnknownPlaceholder)
              = TCount(template, UnknownPlaceholder)
    /\ (template = TestTemplate /\ pc = "done" /\ ~faulted) => error = <<>>

\* a page rendered from a template with an unknown placeholder was created by
\* one run and updated by the next, and holds the placeholder
C14_Witness ==
    /\ Succeeded
    /\ TCount(template, UnknownPlaceholder) = 1
    /\ \E k \in AllKeys :
          /\ outcome[k] = "UPDATE"
          /\ wcount[k] = 1
          /\ Verbatim(pageBefore(k), UnknownPlaceholder) = 1
          /\ Verbatim(pageOf(k), UnknownPlaceholder) = 1

(* ---------------------------------------------------------------------- *)
\* the entry rendered by SpecRender, its template and the text it was given
rendered == outputFiles[1].content
Count(html, tok) == Cardinality({i \in DOMAIN html : html[i] = tok})
Kinds(html, t) == {i \in DOMAIN html : html[i].t = t}
Delimiters == {"{{#ITEM_AUTHOR}}", "{{/ITEM_AUTHOR}}",
               "{{#ITEM_CATEGORIES}}", "{{/ITEM_CATEGORIES}}"}

RawCharacters == {"&", "<", ">", "\"", "'"}

\* C16: the title, author and category text of an entry are HTML-escaped
\* before they are substituted: no raw & < > " ' of them reaches the output,
\* and the title A & B <Co> is rendered as A &amp; B &lt;Co&gt;.
C16_TextEscaped ==
    pc = "rendered" =>
        /\ \A i \in DOMAIN rendered :
              rendered[i].t \in {"item", "title", "author", "categories"}
                  => \A j \in DOMAIN rendered[i].title :
                        rendered[i].title[j] \notin RawCharacters
        /\ \A i \in Kinds(rendered, "title") \cup Kinds(rendered, "item") :
              /\ Len(rendered[i].title) = Len(feed[1].title)
              /\ feed[1].title = AmpersandTitle =>
                    rendered[i].title
                        = <<"A", " ", "&amp;", " ", "B", " ", "&lt;", "C", "o", "&gt;">>

\* the entry titled A & B <Co> with an author <b> was rendered
C16_Witness ==
    /\ pc = "rendered"
    /\ feed[1].title = AmpersandTitle
    /\ feed[1].author = <<"<", "b", ">">>
    /\ \E i \in Kinds(rendered, "title") :
          rendered[i].title = <<"A", " ", "&amp;", " ", "B", " ", "&lt;", "C", "o", "&gt;">>
    /\ \E i \in Kinds(rendered, "author") : rendered[i].title = <<"&lt;", "b", "&gt;">>

(* ---------------------------------------------------------------------- *)
PositionIn(items, item) == CHOOSE i \in DOMAIN items : items[i] = item
BucketOf(k) == CHOOSE i \in DOMAIN groups : groups[i].key = k
OlderKeys(k) == {j \in Range(availableMonths) : KeyLess(j, k)}
NewerKeys(k) == {j \in Range(availableMonths) : KeyLess(k, j)}

\* C17: the buckets of a feed are fixed by the feed alone: bucket keys are the
\* months of the dated entries, newest first and without repetition; each
\* bucket holds exactly the dated entries of its month, newest first, entries
\* of equal time in the order the feed had them; and the neighbours of a
\* bucket are the nearest older and the nearest newer bucket key.
C17_StableDeterministicGrouping ==
    groups # <<>> =>
        /\ \A i, j \in DOMAIN groups : i < j => KeyLess(groups[j].key, groups[i].key)
        /\ Range(availableMonths)
              = {getYearMonthKey(feed[i].pubDate) : i \in {n \in DOMAIN feed : hasPubDate(feed[n])}}
        /\ \A b \in DOMAIN groups :
              LET items == groups[b].items
                  adj   == findAdjacentMonths(groups[b].key, availableMonths)
              IN  /\ Range(items)
                        = {feed[i] : i \in {n \in DOMAIN feed :
                               /\ hasPubDate(feed[n])
                               /\ getYearMonthKey(feed[n].pubDate) = groups[b].key}}
                  /\ Len(items) = Cardinality(Range(items))
                  /\ \A i, j \in DOMAIN items : i < j =>
                        \/ getTime(items[i].pubDate) > getTime(items[j].pubDate)
                        \/ /\ getTime(items[i].pubDate) = getTime(items[j].pubDate)
                           /\ PositionIn(feed, items[i]) < PositionIn(feed, items[j])
                  /\ adj.prev = IF OlderKeys(groups[b].key) = {} THEN NoKey
                                ELSE CHOOSE k \in OlderKeys(groups[b].key) :
                                        \A j \in OlderKeys(groups[b].key) : j = k \/ KeyLess(j, k)
                  /\ adj.next = IF NewerKeys(groups[b].key) = {} THEN NoKey
                                ELSE CHOOSE k \in NewerKeys(groups[b].key) :
                                        \A j \in NewerKeys(groups[b].key) : j = k \/ KeyLess(k, j)

\* a feed with Q before B, both of the same time, was grouped: Q stays first
C17_Witness ==
    /\ feed = <<eQ, eB>>
    /\ Len(groups) = 1
    /\ groups[1].items = <<eQ, eB>>

\* the same two entries supplied the other way round keep that order too
C17_WitnessReversed ==
    /\ feed = <<eB, eQ>>
    /\ Len(groups) = 1
    /\ groups[1].items = <<eB, eQ>>

(* ---------------------------------------------------------------------- *)
\* C18: at the end of a run, failed or not, every page that was on disk when
\* the run started is still on disk and still holds every entry it held.
C18_ExistingPagesPreserved ==
    pc = "done" =>
        \A p \in Paths : disk0[p] # NoPage =>
            /\ disk[p] # NoPage
            /\ Range(ItemsOf(disk0[p])) \subseteq Range(ItemsOf(disk[p]))

(* ---------------------------------------------------------------------- *)
knownLinks(k) == extractExistingLinks(pageBefore(k))
BucketItems(k) == groups[BucketOf(k)].items
NewOf(k) == SelectSeq(BucketItems(k), LAMBDA it : it.link \notin knownLinks(k))
OutputOf(k) == outputFiles[CHOOSE i \in DOMAIN outputFiles : outputFiles[i].key = k]

HasMainRegion(page) ==
    \E i, j \in DOMAIN page : i < j /\ page[i].t = "main_open" /\ page[j].t = "main_close"

\* C19: the state of every bucket a run has decided: CREATE exactly when no
\* page was at the bucket's path; else NO_CHANGE exactly when every entry of
\* the bucket has its link among the page's known links; else UPDATE, and then
\* the new entries, counted for the output file and rendered first in
\* the main region of the page, are exactly the bucket's entries whose link is
\* not known. The page's publish-time marker plays no part.
C19_BucketStateByLinks ==
    \A k \in AllKeys : outcome[k] # "-" =>
        /\ outcome[k] = "CREATE" <=> pageBefore(k) = NoPage
        /\ outcome[k] = "NO_CHANGE" <=>
              (pageBefore(k) # NoPage /\ \A i \in DOMAIN BucketItems(k) :
                                            BucketItems(k)[i].link \in knownLinks(k))
        /\ outcome[k] = "UPDATE" <=>
              (pageBefore(k) # NoPage /\ \E i \in DOMAIN BucketItems(k) :
                                            BucketItems(k)[i].link \notin knownLinks(k))
        /\ outcome[k] = "UPDATE" =>
              /\ \E i \in DOMAIN outputFiles : outputFiles[i].key = k
              /\ OutputOf(k).itemCount = Len(NewOf(k))
              /\ HasMainRegion(pageBefore(k)) =>
                    /\ SubSeq(Titles(OutputOf(k).content), 1, Len(NewOf(k)))
                          = EntryTitles(NewOf(k))
                    /\ Len(ItemsOf(OutputOf(k).content))
                          = Len(NewOf(k)) + Len(ItemsOf(pageBefore(k)))

\* an UPDATE of a page that carries a publish-time marker: of a bucket of two
\* entries one was known by its link and the other was taken as new
C19_Witness ==
    \E k \in AllKeys :
        /\ outcome[k] = "UPDATE"
        /\ extractMetaDate(pageBefore(k)) # 0
        /\ Len(BucketItems(k)) = 2
        /\ Len(NewOf(k)) = 1
        /\ HasMainRegion(pageBefore(k))

(* ---------------------------------------------------------------------- *)
\* a page without the inside of its main region and without its date meta tag
Shell(page) ==
    LET open  == FirstAt(page, "main_open", 1)
        close == IF open = 0 THEN 0 ELSE FirstAt(page, "main_close", open + 1)
        outer == IF close = 0 THEN page
                 ELSE SubSeq(page, 1, open) \o SubSeq(page, close, Len(page))
    IN  SelectSeq(outer, LAMBDA tok : tok.t # "meta")

\* the main region of the updated page is some new HTML followed by the old
\* main region, and the new HTML renders exactly the new entries of the bucket
NewBeforeOld(old, new, items) ==
    LET added == Len(mainContent(new)) - Len(mainContent(old))
    IN  /\ added >= 0
        /\ SubSeq(mainContent(new), added + 1, Len(mainContent(new))) = mainContent(old)
        /\ Titles(SubSeq(mainContent(new), 1, added)) = EntryTitles(items)

\* C20: the page an UPDATE produces differs from the page it found in two
\* things only: the main region, where the new entries come first and the old
\* content follows unchanged, and the date meta tag, which holds the time of
\* the run; everything else, navigation included, is as it was.
C20_UpdateChangesMainAndMarker ==
    \A k \in AllKeys :
        (outcome[k] = "UPDATE" /\ \E i \in DOMAIN outputFiles : outputFiles[i].key = k) =>
            /\ NewBeforeOld(pageBefore(k), OutputOf(k).content, NewOf(k))
            /\ extractMetaDate(OutputOf(k).content) = time
            /\ Shell(OutputOf(k).content) = Shell(pageBefore(k))

\* the same, for the pages that have a main region
UpdateOfPageWithMainRegion ==
    \A k \in AllKeys :
        (/\ outcome[k] = "UPDATE"
         /\ \E i \in DOMAIN outputFiles : outputFiles[i].key = k
         /\ HasMainRegion(pageBefore(k))) =>
            /\ NewBeforeOld(pageBefore(k), OutputOf(k).content, NewOf(k))
            /\ extractMetaDate(OutputOf(k).content) = time
            /\ Shell(OutputOf(k).content) = Shell(pageBefore(k))

(* ---------------------------------------------------------------------- *)
LinksOf(items) == {items[i].link : i \in DOMAIN items}

\* the entries a run rendered on the page of bucket k
RenderedOn(k) ==
    IF outcome[k] = "CREATE" THEN BucketItems(k)
    ELSE IF HasMainRegion(pageBefore(k)) THEN NewOf(k)
    ELSE <<>>

\* C21: for every page a run produces by CREATE or UPDATE, the links the
\* reader extracts from the page are the links of the entries rendered on it:
\* those of the bucket for a CREATE, those read from the page before together
\* with those of the entries added for an UPDATE.
C21_ReaderRecoversRenderedLinks ==
    \A k \in AllKeys :
        (outcome[k] \in {"CREATE", "UPDATE"}
            /\ \E i \in DOMAIN outputFiles : outputFiles[i].key = k) =>
            extractExistingLinks(OutputOf(k).content)
                = LinksOf(RenderedOn(k))
                    \cup (IF outcome[k] = "UPDATE" THEN knownLinks(k) ELSE {})

(* ---------------------------------------------------------------------- *)
Patched == \E k \in AllKeys : pcount[k] > 0

\* C22: within a run a navigation patch is applied only when every file of the
\* write batch has been written and no write failed, and once a patch has been
\* applied the run writes no further primary page.
C22_PatchesAfterPrimaryWrites ==
    /\ [](Patched =>
            /\ pc \in {"patch", "done"}
            /\ Len(writtenPaths) = Len(outputFiles)
            /\ \A i \in DOMAIN outputFiles : wcount[outputFiles[i].key] = 1
            /\ ~BatchFailed
            /\ unlinked = {})
    /\ [](BatchFailed => ~Patched)
    /\ [][Patched => (wcount' = wcount \/ wcount' = Zero)]_vars

\* a run wrote two pages, then patched the earlier page of a page it created
C22_Witness ==
    /\ Succeeded
    /\ Len(writtenPaths) = 2
    /\ Patched
    /\ \E k \in AllKeys : outcome[k] = "CREATE"

(* ---------------------------------------------------------------------- *)
\* the bucket keys of the run older than k, and the newest of them
PreviousBucket(k) ==
    IF OlderKeys(k) = {} THEN NoKey
    ELSE CHOOSE j \in OlderKeys(k) : \A o \in OlderKeys(k) : o = j \/ KeyLess(o, j)

\* C23: a patch of an earlier page is queued, and later applied, only for a
\* bucket that took the CREATE path (no page at its path when the run began)
\* and only towards the bucket chronologically before it in the grouping;
\* buckets that ended UPDATE or NO_CHANGE queue nothing.
C23_PatchOnlyForCreatedBuckets ==
    /\ \A i \in DOMAIN newlyCreatedPages :
          LET q == newlyCreatedPages[i]
          IN  /\ outcome[q.yearMonth] = "CREATE"
              /\ pageBefore(q.yearMonth) = NoPage
              /\ q.prevMonth # NoKey
              /\ q.prevMonth = PreviousBucket(q.yearMonth)
    /\ \A k \in AllKeys : pcount[k] > 0 =>
          \E i \in DOMAIN newlyCreatedPages :
              /\ newlyCreatedPages[i].prevMonth = k
              /\ outcome[newlyCreatedPages[i].yearMonth] = "CREATE"
    /\ \A k \in AllKeys : outcome[k] \in {"UPDATE", "NO_CHANGE"} =>
          \A i \in DOMAIN newlyCreatedPages : newlyCreatedPages[i].yearMonth # k

\* a run that created 2025-01 and updated 2024-12 patched 2024-12 and queued
\* nothing for the updated bucket
C23_Witness ==
    /\ Succeeded
    /\ outcome[<<2025, 1>>] = "CREATE"
    /\ outcome[<<2024, 12>>] = "UPDATE"
    /\ pcount[<<2024, 12>>] = 1
    /\ Len(newlyCreatedPages) = 1

(* ---------------------------------------------------------------------- *)
\* the earlier page of the patch, before and after, and the month created
patchedKey == newlyCreatedPages[1].prevMonth
createdKey == newlyCreatedPages[1].yearMonth
ActiveForwardLinks(page) == Cardinality({i \in DOMAIN page : page[i].t = "next_link"})

\* C24 as claimed: the patch returns a page with an active forward link
\* unchanged, applying it twice gives what applying it once gives, and no page
\* ever holds more than one active forward link.
C24_AtMostOneForwardLink ==
    \A k \in AllKeys :
        /\ ActiveForwardLinks(pageOf(k)) > 0 =>
              \A n \in AllKeys : updateNextLink(pageOf(k), n, k) = pageOf(k)
        /\ \A n, m \in AllKeys :
              updateNextLink(updateNextLink(pageOf(k), n, k), m, k)
                  = updateNextLink(pageOf(k), n, k)
        /\ ActiveForwardLinks(pageOf(k)) <= 1

\* C24 as amended: the patch returns a page with an active forward link
\* unchanged, applying it twice gives what applying it once gives, and the
\* patch adds one active forward link to a page without any and none to a page
\* that has one.
C24_PatchAddsNoSecondForwardLink ==
    \A k \in AllKeys :
        /\ ActiveForwardLinks(pageOf(k)) > 0 =>
              \A n \in AllKeys : updateNextLink(pageOf(k), n, k) = pageOf(k)
        /\ \A n, m \in AllKeys :
              updateNextLink(updateNextLink(pageOf(k), n, k), m, k)
                  = updateNextLink(pageOf(k), n, k)
        /\ ActiveForwardLinks(pageOf(k))
              <= IF ActiveForwardLinks(pageBefore(k)) = 0 THEN 1
                 ELSE ActiveForwardLinks(pageBefore(k))
        /\ (pc = "done" /\ k = patchedKey /\ pcount[k] = 0) => pageOf(k) = pageBefore(k)

\* the patch loop went over a page that already had an active forward link
\* to another month and left it as it was
C24_Witness ==
    /\ pc = "done"
    /\ ActiveForwardLinks(pageBefore(patchedKey)) = 1
    /\ \E i \in DOMAIN pageBefore(patchedKey) :
          /\ pageBefore(patchedKey)[i].t = "next_link"
          /\ pageBefore(patchedKey)[i].key # createdKey
    /\ pageOf(patchedKey) = pageBefore(patchedKey)
    /\ pcount[patchedKey] = 0

(* ---------------------------------------------------------------------- *)
\* the page of month k as the patch loop of the run finds it
PageAtPatch(k) ==
    IF \E i \in DOMAIN outputFiles : outputFiles[i].key = k
    THEN OutputOf(k).content
    ELSE pageBefore(k)

\* entry number i of the patch queue has been gone through
PatchAttempted(i) == (pc = "patch" /\ cur > i) \/ (pc = "done" /\ ~faulted)

NoForwardAnchor(page) ==
    /\ page # NoPage
    /\ \A i \in DOMAIN page : page[i].t \notin {"next_link", "next_disabled"}

\* C25: when the earlier page has neither an active forward link nor the
\* disabled placeholder, the patch leaves the file as it is and raises no
\* error, and the run ends in success.
C25_PatchSkippedSilently ==
    \A i \in DOMAIN newlyCreatedPages :
        LET prev == newlyCreatedPages[i].prevMonth
        IN  (PatchAttempted(i) /\ NoForwardAnchor(PageAtPatch(prev))) =>
                /\ pageOf(prev) = PageAtPatch(prev)
                /\ pcount[prev] = 0
                /\ error = <<>>
                /\ pc = "done" => Succeeded

\* a run created 2025-01 next to an existing 2024-12 page that has no
\* navigation at all, left that page alone and succeeded
C25_Witness ==
    /\ Succeeded
    /\ Len(newlyCreatedPages) = 1
    /\ newlyCreatedPages[1].prevMonth = <<2024, 12>>
    /\ outcome[<<2025, 1>>] = "CREATE"
    /\ NoForwardAnchor(pageBefore(<<2024, 12>>))
    /\ pageOf(<<2024, 12>>) = PageAtPatch(<<2024, 12>>)

(* ---------------------------------------------------------------------- *)
\* C26: a bucket whose page exists and yields no link to the reader is
\* decided without error: the known links are empty, every entry of the
\* bucket is new, and the bucket takes the UPDATE path with all of them.
C26_PageWithoutLinksIsUpdated ==
    \A k \in AllKeys :
        (outcome[k] # "-" /\ pageBefore(k) # NoPage /\ knownLinks(k) = {}) =>
            /\ outcome[k] = "UPDATE"
            /\ NewOf(k) = BucketItems(k)
            /\ \E i \in DOMAIN outputFiles : outputFiles[i].key = k
            /\ OutputOf(k).itemCount = Len(BucketItems(k))
            /\ (pc = "done" /\ ~faulted) => error = <<>>

\* a page rendered without entry links was found again with the entry it
\* renders: the run took the entry as new, updated the page and succeeded
C26_Witness ==
    \E k \in AllKeys :
        /\ Succeeded
        /\ ItemsOf(pageBefore(k)) # <<>>
        /\ knownLinks(k) = {}
        /\ outcome[k] = "UPDATE"
        /\ feed = prevFeed
        /\ wcount[k] = 1

(* ---------------------------------------------------------------------- *)
\* the file a relative href on the page of month k leads to
Resolve(k, href) ==
    IF href # <<>> /\ Head(href) = "../" THEN Tail(href)
    ELSE <<yearOf(k), "/">> \o href

AllRunsSucceeded == faults = 0 /\ Succeeded /\ (runs = 0 \/ prevClean)

\* C27: after runs that all succeeded, every active previous-month or
\* next-month link of every page on disk leads to a page that is on disk.
C27_NavigationLinksResolve ==
    AllRunsSucceeded =>
        \A k \in AllKeys : \A i \in DOMAIN pageOf(k) :
            pageOf(k)[i].t \in {"next_link", "prev_link"} =>
                /\ Resolve(k, pageOf(k)[i].href) \in Paths
                /\ disk[Resolve(k, pageOf(k)[i].href)] # NoPage
                /\ Resolve(k, pageOf(k)[i].href) = generateFilePath(pageOf(k)[i].key)

\* after two successful runs the 2024-12 page links forward across the year
\* boundary to the 2025-01 page and that page links back
C27_Witness ==
    /\ AllRunsSucceeded
    /\ runs = 1
    /\ \E i \in DOMAIN pageOf(<<2024, 12>>) :
          /\ pageOf(<<2024, 12>>)[i].t = "next_link"
          /\ pageOf(<<2024, 12>>)[i].key = <<2025, 1>>
    /\ \E i \in DOMAIN pageOf(<<2025, 1>>) :
          /\ pageOf(<<2025, 1>>)[i].t = "prev_link"
          /\ pageOf(<<2025, 1>>)[i].key = <<2024, 12>>

(* ---------------------------------------------------------------------- *)
\* C28: the page a generateHTML call returns is the page a new engine returns
\* for the same entries, template and options, whatever the engine rendered
\* before; a bare {{ITEMS}} marker is rendered with the built-in entry
\* template.
C28_RenderingCarriesNoState ==
    (pc = "engine" /\ outputFiles # <<>>) =>
        /\ outputFiles[1].content
              = generateHTML(itemTemplateAfter(BuiltinItemTemplate, template), template,
                             firstBucket(feed).key, firstBucket(feed).items,
                             neighbours(feed), runs)
        /\ hasPlaceholder(template, "{{ITEMS}}") => itemTemplate = BuiltinItemTemplate

(* ---------------------------------------------------------------------- *)
\* the month asked about, the months of the list smaller and larger than it
askedKey == newlyCreatedPages[1].yearMonth
Smaller == {j \in Range(availableMonths) : KeyLess(j, askedKey)}
Larger == {j \in Range(availableMonths) : KeyLess(askedKey, j)}

\* C29: findAdjacentMonths gives the largest key of the list smaller than the
\* key asked about and the smallest key larger than it, each absent where
\* there is none, in whatever order the list is; both are absent when the key
\* is not in the list.
C29_AdjacentMonths ==
    pc \in {"path", "linked"} =>
        LET r == newlyCreatedPages[1]
        IN  IF askedKey \notin Range(availableMonths)
            THEN r.prevMonth = NoKey /\ r.nextMonth = NoKey
            ELSE /\ IF Smaller = {} THEN r.prevMonth = NoKey
                    ELSE /\ r.prevMonth \in Smaller
                         /\ \A j \in Smaller : j = r.prevMonth \/ KeyLess(j, r.prevMonth)
                 /\ IF Larger = {} THEN r.nextMonth = NoKey
                    ELSE /\ r.nextMonth \in Larger
                         /\ \A j \in Larger : j = r.nextMonth \/ KeyLess(r.nextMonth, j)

\* the neighbours of 2024-12 in the list 2025-01, 2025-02, 2024-11, 2024-12
C29_Witness ==
    /\ pc = "path"
    /\ availableMonths = <<<<2025, 1>>, <<2025, 2>>, <<2024, 11>>, <<2024, 12>>>>
    /\ askedKey = <<2024, 12>>
    /\ newlyCreatedPages[1].prevMonth = <<2024, 11>>
    /\ newlyCreatedPages[1].nextMonth = <<2025, 1>>

\* a key that is not in the list has no neighbours
C29_WitnessAbsent ==
    /\ pc = "path"
    /\ availableMonths = <<<<2025, 1>>, <<2024, 11>>>>
    /\ askedKey = <<2024, 12>>
    /\ newlyCreatedPages[1].prevMonth = NoKey
    /\ newlyCreatedPages[1].nextMonth = NoKey

(* ---------------------------------------------------------------------- *)
\* the relative path from the month asked about to month to is as C30 says
AsSpecified(path, to) ==
    /\ (askedKey[1] = to[1]) => path = KeyText(to) \o <<".html">>
    /\ (askedKey[1] # to[1]) =>
          path = <<"../", ToString(to[1]), "/">> \o KeyText(to) \o <<".html">>
    /\ Resolve(askedKey, path) = <<ToString(to[1]), "/">> \o KeyText(to) \o <<".html">>

\* C30: the relative path from one month to another is fixed by the two keys:
\* the bare file name of the target when the years are the same, the way up
\* and into the target's year directory when they differ; what is on disk
\* plays no part.
C30_RelativePath ==
    pc = "linked" =>
        /\ newlyCreatedPages[1].nextMonth # NoKey =>
              AsSpecified(writtenPaths[1], newlyCreatedPages[1].nextMonth)
        /\ newlyCreatedPages[1].prevMonth # NoKey =>
              AsSpecified(writtenPaths[2], newlyCreatedPages[1].prevMonth)
        /\ (askedKey = <<2024, 12>> /\ newlyCreatedPages[1].nextMonth = <<2025, 1>>) =>
              writtenPaths[1] = <<"../", "2025", "/", "2025", "-", "0", "1", ".html">>
        /\ (askedKey = <<2024, 12>> /\ newlyCreatedPages[1].prevMonth = <<2024, 11>>) =>
              writtenPaths[2] = <<"2024", "-", "11", ".html">>

\* from 2024-12: up and into 2025 for 2025-01, the bare name for 2024-11, with
\* pages on disk
C30_Witness ==
    /\ pc = "linked"
    /\ askedKey = <<2024, 12>>
    /\ writtenPaths = <<<<"../", "2025", "/", "2025", "-", "0", "1", ".html">>,
                        <<"2024", "-", "11", ".html">>>>
    /\ disk[generateFilePath(<<2024, 11>>)] # NoPage

====
